---- MODULE Spec2Model ----
(***************************************************************************)
(* Model of the Tryx Panorama display controller: the foreground app       *)
(* state (src/src/app_state.rs), the background transfer worker spawned by *)
(* start_transfer, the event channel between them, the serial command      *)
(* session of AioCoolerController::send_image_commands                     *)
(* (src/src/screen_setup.rs), and the frame codec and command message of   *)
(* src/src/data.rs.                                                        *)
(*                                                                         *)
(* Specifications.  Spec: up to MaxTransfers transfers, one after the      *)
(* other; LiveSpec: Spec under fair scheduling; EditSpec: one transfer     *)
(* with its inputs edited while it runs; LogSpec: a sender of Log events   *)
(* against process_messages; CodecSpec: the functions of data.rs, each     *)
(* called on its own; WireSpec: one transfer in which the bytes of every   *)
(* frame written are kept; PushSpec: one transfer in which the outcome of  *)
(* the size verification of adb_push is kept.                              *)
(*                                                                         *)
(* Conventions.  Option<T> is a sequence of length 0 (None) or 1 (Some).   *)
(* A String built with format! is the sequence of its fragments.  The f32  *)
(* progress is held in tenths (0.1 is 1, 1.0 is 10).  In data.rs a byte is *)
(* a number in 0..255 and a byte string a sequence of bytes.               *)
(***************************************************************************)
EXTENDS Integers, Sequences, FiniteSets, TLC

VARIABLES
    serial_device,    \* AioCoolerApp.serial_device
    selected_image,   \* AioCoolerApp.selected_image : Option<PathBuf>
    screen_config,    \* AioCoolerApp.screen_config
    is_processing,    \* AioCoolerApp.is_processing
    progress,         \* AioCoolerApp.progress, in tenths
    status_message,   \* AioCoolerApp.status_message
    log_messages,     \* AioCoolerApp.log_messages
    queue,            \* events in the channel, each with the serial number of its send
    workers,          \* the threads spawned so far, in spawn order
    fg,               \* position of the foreground thread
    start_result,     \* how the most recent start_transfer call returned
    sent,             \* history: sender and kind of every event sent, by serial number
    applied,          \* history: serial numbers of the events applied, in order
    codec             \* the call of a data.rs function under test, and its result

vars == <<serial_device, selected_image, screen_config, is_processing, progress,
          status_message, log_messages, queue, workers, fg, start_result,
          sent, applied, codec>>

app_state == <<serial_device, selected_image, screen_config, is_processing,
               progress, status_message, log_messages>>

----------------------------------------------------------------------------
(* Bounds of the model *)

MaxTransfers == 2     \* workers spawned in one behaviour
MaxLogs == 102        \* Log events sent in one behaviour of LogSpec
MaxLen == 3           \* bytes of a short message handed to the codec

(* Input sets *)

Some(x) == <<x>>
None == <<>>

Images == { [stem |-> "a", ext |-> Some("jpg")] }
OtherImages == { [stem |-> "cover", ext |-> None] }
Devices == { "/dev/ttyACM0", "/dev/ttyACM1" }
ScreenModes == { "Full Screen", "Window" }
Stamps == { 1, 2 }    \* readings of the clock generate_filename can see
Sizes == { 0, 2 }

(* The local file system, as the worker finds it. *)
FileSizeOf(path) == IF path.stem = "a" THEN 2 ELSE 0
Md5Of(path) == IF path.stem = "a" THEN "md5-a" ELSE "md5-cover"
SizeStr(n) == IF n = 0 THEN "0" ELSE "2"

----------------------------------------------------------------------------
(* app_state.rs: AppMessage *)

Log(text) == [type |-> "Log", text |-> text]
Progress(p, status) == [type |-> "Progress", progress |-> p, status |-> status]
Success(msg) == [type |-> "Success", msg |-> msg]
Error(msg) == [type |-> "Error", msg |-> msg]

(* screen_setup.rs: ScreenConfig::default *)
DefaultScreenConfig ==
    [ id |-> "Customization",
      screen_mode |-> "Full Screen",
      play_mode |-> "Single",
      ratio |-> "2:1",
      color |-> "#dcdcdc",
      align |-> "Left",
      filter_opacity |-> 100,
      badges |-> <<"GPU Badge", "CPU Badge">>,
      sysinfo_display |-> <<"CPU Temperature", "GPU Temperature">> ]

LogCap == 100

(* The locals of one worker thread before it has run.  `ops` is the trace  *)
(* of what the thread has done outside the channel: every call into the    *)
(* file system, adb and the serial port, in order, with its outcome.       *)
NewWorker(image_path, device, config) ==
    [ pc |-> "progress_md5",
      image_path |-> image_path,
      serial_device |-> device,
      config |-> config,
      file_md5 |-> "",
      file_size |-> 0,
      remote_name |-> [stamp |-> 0, ext |-> ""],
      result |-> "none",
      err |-> <<>>,
      i |-> 0,
      ops |-> <<>> ]

(* No function of data.rs has been called on its own. *)
NoCall == [fn |-> "none"]

(* send_command is the function under test: the frame each write_all is    *)
(* handed is kept in the trace of the thread.                              *)
SendCommandTraced == [fn |-> "send_command"]

(* adb_push is the function under test: what its stat child process exited *)
(* with and printed, and the local size it is compared with, are kept in   *)
(* the trace of the thread.                                                *)
AdbPushTraced == [fn |-> "adb_push"]

(* AioCoolerApp::default *)
Init ==
    /\ serial_device = "/dev/ttyACM0"
    /\ selected_image = None
    /\ screen_config = DefaultScreenConfig
    /\ is_processing = FALSE
    /\ progress = 0
    /\ status_message = <<"Ready">>
    /\ log_messages = <<>>
    /\ queue = <<>>
    /\ workers = <<>>
    /\ fg = "idle"
    /\ start_result = "none"
    /\ sent = <<>>
    /\ applied = <<>>
    /\ codec = NoCall

----------------------------------------------------------------------------
(* The channel: crossbeam::channel::unbounded, one FIFO queue.  A send     *)
(* appends and never blocks; the receiver lives in the app, so a send      *)
(* never fails.  The k-th send of a behaviour has serial number k.          *)

Send(w, msg) ==
    /\ queue' = Append(queue, [id |-> Len(sent) + 1, msg |-> msg])
    /\ sent' = Append(sent, [w |-> w, type |-> msg.type])

----------------------------------------------------------------------------
(* AioCoolerApp::process_messages.  Each try_recv is one step, so sends of *)
(* the worker interleave with the drain loop.                              *)

(* Faulty variant: at the cap the line that arrived is the one dropped. *)
PushLog_DropNewest(logs, text) ==
    IF Len(logs) >= LogCap THEN logs ELSE Append(logs, text)

(* log_messages.push(log); if len > 100 { remove(0); } *)
PushLog(logs, text) ==
    LET pushed == Append(logs, text)
    IN  IF Len(pushed) > LogCap THEN Tail(pushed) ELSE pushed

ApplyLog(msg) ==
    /\ log_messages' = PushLog(log_messages, msg.text)
    /\ UNCHANGED <<is_processing, progress, status_message>>

ApplyProgress(msg) ==
    /\ progress' = msg.progress
    /\ status_message' = msg.status
    /\ UNCHANGED <<is_processing, log_messages>>

(* Faulty variant: a Success leaves the progress where it was. *)
ApplySuccess_KeepsProgress(msg) ==
    /\ is_processing' = FALSE
    /\ status_message' = msg.msg
    /\ UNCHANGED <<progress, log_messages>>

ApplySuccess(msg) ==
    /\ is_processing' = FALSE
    /\ progress' = 10
    /\ status_message' = msg.msg
    /\ UNCHANGED log_messages

(* Faulty variant: an Error leaves the in-flight guard set. *)
ApplyError_KeepsGuard(msg) ==
    /\ progress' = 0
    /\ status_message' = <<"Error: ">> \o msg.msg
    /\ UNCHANGED <<is_processing, log_messages>>

ApplyError(msg) ==
    /\ is_processing' = FALSE
    /\ progress' = 0
    /\ status_message' = <<"Error: ">> \o msg.msg
    /\ UNCHANGED log_messages

ApplyMessage(msg) ==
    CASE msg.type = "Log" -> ApplyLog(msg)
      [] msg.type = "Progress" -> ApplyProgress(msg)
      [] msg.type = "Success" -> ApplySuccess(msg)
      [] msg.type = "Error" -> ApplyError(msg)

(* Faulty variant: the newest event is taken, not the oldest. *)
RecvMessage_Newest ==
    /\ queue # <<>>
    /\ ApplyMessage(queue[Len(queue)].msg)
    /\ queue' = SubSeq(queue, 1, Len(queue) - 1)
    /\ applied' = Append(applied, queue[Len(queue)].id)
    /\ fg' = "process_messages"
    /\ UNCHANGED <<serial_device, selected_image, screen_config, workers,
                   start_result, sent, codec>>

(* try_recv returned Ok(msg): the loop body runs. *)
RecvMessage ==
    /\ queue # <<>>
    /\ ApplyMessage(Head(queue).msg)
    /\ queue' = Tail(queue)
    /\ applied' = Append(applied, Head(queue).id)
    /\ fg' = "process_messages"
    /\ UNCHANGED <<serial_device, selected_image, screen_config, workers,
                   start_result, sent, codec>>

(* Faulty variant: a blocking recv, which returns Err only once every      *)
(* sender is gone.                                                         *)
ProcessMessagesReturn_Blocking ==
    /\ queue = <<>>
    /\ \A w \in DOMAIN workers : workers[w].pc = "done"
    /\ fg' = "idle"
    /\ UNCHANGED <<app_state, queue, workers, start_result, sent, applied, codec>>

(* try_recv returned Err(Empty): the loop and the call end. *)
ProcessMessagesReturn ==
    /\ queue = <<>>
    /\ fg' = "idle"
    /\ UNCHANGED <<app_state, queue, workers, start_result, sent, applied, codec>>

ProcessMessages == RecvMessage \/ ProcessMessagesReturn

----------------------------------------------------------------------------
(* AioCoolerApp::start_transfer, as far as the spawn.                      *)

(* Faulty variant: the in-flight guard is not consulted. *)
InFlight_Never == FALSE

(* if self.is_processing { return; } *)
InFlight == is_processing

StartTransferBusy ==
    /\ fg = "idle"
    /\ InFlight
    /\ start_result' = "busy"
    /\ UNCHANGED <<app_state, queue, workers, fg, sent, applied, codec>>

(* Faulty variant: a missing image is reported as an Error event. *)
StartTransferNoImage_ErrorEvent ==
    /\ fg = "idle"
    /\ ~InFlight
    /\ selected_image = None
    /\ Send(0, Error(<<"No image selected">>))
    /\ start_result' = "no_image"
    /\ UNCHANGED <<app_state, workers, fg, applied, codec>>

StartTransferNoImage ==
    /\ fg = "idle"
    /\ ~InFlight
    /\ selected_image = None
    /\ status_message' = <<"No image selected">>
    /\ start_result' = "no_image"
    /\ UNCHANGED <<serial_device, selected_image, screen_config, is_processing,
                   progress, log_messages, queue, workers, fg, sent, applied, codec>>

(* Faulty variant: the in-flight guard is not set at the spawn. *)
StartTransferSpawn_GuardNotSet ==
    /\ fg = "idle"
    /\ ~InFlight
    /\ selected_image # None
    /\ Len(workers) < MaxTransfers
    /\ progress' = 0
    /\ status_message' = <<"Starting transfer...">>
    /\ workers' = Append(workers,
                         NewWorker(selected_image[1], serial_device, screen_config))
    /\ start_result' = "spawned"
    /\ UNCHANGED <<serial_device, selected_image, screen_config, is_processing,
                   log_messages, queue, fg, sent, applied, codec>>

StartTransferSpawn ==
    /\ fg = "idle"
    /\ ~InFlight
    /\ selected_image # None
    /\ Len(workers) < MaxTransfers
    /\ is_processing' = TRUE
    /\ progress' = 0
    /\ status_message' = <<"Starting transfer...">>
    /\ workers' = Append(workers,
                         NewWorker(selected_image[1], serial_device, screen_config))
    /\ start_result' = "spawned"
    /\ UNCHANGED <<serial_device, selected_image, screen_config, log_messages,
                   queue, fg, sent, applied, codec>>

StartTransfer == StartTransferBusy \/ StartTransferNoImage \/ StartTransferSpawn

----------------------------------------------------------------------------
(* The widgets of AioCoolerApp::update that edit the inputs of a transfer. *)

SelectImage(paths) ==
    /\ fg = "idle"
    /\ \E path \in paths : selected_image' = Some(path)
    /\ UNCHANGED <<serial_device, screen_config, is_processing, progress,
                   status_message, log_messages, queue, workers, fg,
                   start_result, sent, applied, codec>>

EditScreenMode ==
    /\ fg = "idle"
    /\ \E mode \in ScreenModes :
           screen_config' = [screen_config EXCEPT !.screen_mode = mode]
    /\ UNCHANGED <<serial_device, selected_image, is_processing, progress,
                   status_message, log_messages, queue, workers, fg,
                   start_result, sent, applied, codec>>

EditSerialDevice ==
    /\ fg = "idle"
    /\ \E device \in Devices : serial_device' = device
    /\ UNCHANGED <<selected_image, screen_config, is_processing, progress,
                   status_message, log_messages, queue, workers, fg,
                   start_result, sent, applied, codec>>

----------------------------------------------------------------------------
(* The worker thread: the closure start_transfer spawns.                   *)

W(w) == workers[w]
WorkerIds == 1..MaxTransfers
At(w, pc) == w \in DOMAIN workers /\ workers[w].pc = pc
Update(w, rec) == workers' = [workers EXCEPT ![w] = rec]

(* Faulty variant: the failed step is left to be run again. *)
Fail_Retry(rec, text) == [rec EXCEPT !.err = text]

(* `?` on an Err: the inner closure returns it and the match is next. *)
Fail(rec, text) == [rec EXCEPT !.result = "Err", !.err = text, !.pc = "match"]

Local(w) == UNCHANGED <<app_state, fg, start_result, applied, queue, sent, codec>>
Sending(w) == UNCHANGED <<app_state, fg, start_result, applied, codec>>

(* image_path.extension().and_then(|e| e.to_str()).unwrap_or("png") *)
Extension(path) == IF path.ext = None THEN "png" ELSE path.ext[1]

SendProgressMd5(w) ==
    /\ At(w, "progress_md5")
    /\ Send(w, Progress(1, <<"Calculating MD5...">>))
    /\ Update(w, [W(w) EXCEPT !.pc = "log_md5"])
    /\ Sending(w)

SendLogMd5(w) ==
    /\ At(w, "log_md5")
    /\ Send(w, Log(<<"Calculating file MD5...">>))
    /\ Update(w, [W(w) EXCEPT !.pc = "calculate_md5"])
    /\ Sending(w)

CalculateMd5(w) ==
    /\ At(w, "calculate_md5")
    /\ \E ok \in BOOLEAN :
          LET ran == [W(w) EXCEPT !.ops = Append(@, [op |-> "calculate_md5", ok |-> ok])]
          IN  IF ok
              THEN Update(w, [ran EXCEPT !.file_md5 = Md5Of(W(w).image_path),
                                         !.pc = "metadata"])
              ELSE Update(w, Fail(ran, <<"md5: cannot read file">>))
    /\ Local(w)

Metadata(w) ==
    /\ At(w, "metadata")
    /\ \E ok \in BOOLEAN :
          LET ran == [W(w) EXCEPT !.ops = Append(@, [op |-> "metadata", ok |-> ok])]
          IN  IF ok
              THEN Update(w, [ran EXCEPT !.file_size = FileSizeOf(W(w).image_path),
                                         !.pc = "generate_filename"])
              ELSE Update(w, Fail(ran, <<"metadata: cannot stat file">>))
    /\ Local(w)

(* AioCoolerController::generate_filename: local time to the millisecond, *)
(* then the extension.                                                     *)
GenerateFilename(w) ==
    /\ At(w, "generate_filename")
    /\ \E stamp \in Stamps :
          Update(w, [W(w) EXCEPT
                        !.remote_name = [stamp |-> stamp,
                                         ext |-> Extension(W(w).image_path)],
                        !.pc = "log_file"])
    /\ Local(w)

SendLogFile(w) ==
    /\ At(w, "log_file")
    /\ Send(w, Log(<<"File: ", W(w).image_path.stem, " (", SizeStr(W(w).file_size),
                     " bytes, MD5: ", W(w).file_md5, ")">>))
    /\ Update(w, [W(w) EXCEPT !.pc = "progress_push"])
    /\ Sending(w)

(* Faulty variant: the push is announced at 0.6, above the 0.5 that follows. *)
SendProgressPush_Overshoots(w) ==
    /\ At(w, "progress_push")
    /\ Send(w, Progress(6, <<"Pushing to device via ADB...">>))
    /\ Update(w, [W(w) EXCEPT !.pc = "log_push"])
    /\ Sending(w)

(* Faulty variant: the thread writes the progress fields of the app itself. *)
SendProgressPush_WritesApp(w) ==
    /\ At(w, "progress_push")
    /\ progress' = 2
    /\ status_message' = <<"Pushing to device via ADB...">>
    /\ Update(w, [W(w) EXCEPT !.pc = "log_push"])
    /\ UNCHANGED <<serial_device, selected_image, screen_config, is_processing,
                   log_messages, queue, sent, fg, start_result, applied, codec>>

SendProgressPush(w) ==
    /\ At(w, "progress_push")
    /\ Send(w, Progress(2, <<"Pushing to device via ADB...">>))
    /\ Update(w, [W(w) EXCEPT !.pc = "log_push"])
    /\ Sending(w)

SendLogPush(w) ==
    /\ At(w, "log_push")
    /\ Send(w, Log(<<"Starting ADB push...">>))
    /\ Update(w, [W(w) EXCEPT !.pc = "adb_push"])
    /\ Sending(w)

----------------------------------------------------------------------------
(* AioCoolerController::adb_push.  What the three adb child processes and  *)
(* the metadata call of line 78 do is input.                               *)

ExecOutcomes == { "spawn_failed", "exit_failure", "exit_success" }
StatOutputs == { "0", "2", "stat: No such file" }

AdbInputs == [ wait : ExecOutcomes, push : ExecOutcomes, meta : BOOLEAN,
               expected_size : Sizes, stat : ExecOutcomes, stat_out : StatOutputs ]

(* String::from_utf8_lossy(..).trim().parse::<u64>().unwrap_or(0) *)
ParseRemoteSize(out) == IF out = "2" THEN 2 ELSE 0

(* format!("/sdcard/pcMedia/{}", remote_name) *)
RemotePath(remote_name) == <<"/sdcard/pcMedia/", remote_name>>

(* Command::new("adb").args(["shell", "stat", "-c", "%s", ..]).output() in *)
(* the trace of the thread: the call, and with it the local size, the exit *)
(* of the child and its output when adb_push is under test.                *)
StatCall(io) ==
    IF codec = AdbPushTraced
    THEN [op |-> "adb_stat", ok |-> io.stat = "exit_success",
          expected_size |-> io.expected_size, exit |-> io.stat, out |-> io.stat_out]
    ELSE [op |-> "adb_stat", ok |-> io.stat = "exit_success"]

(* Faulty variant: a size that differs is noted and the push goes on. *)
AdbPushRun_MismatchIgnored(remote_name, io) ==
    LET wait == <<[op |-> "adb_wait_for_device", ok |-> io.wait = "exit_success"]>>
        push == wait \o <<[op |-> "adb_push_file", remote_path |-> RemotePath(remote_name),
                            ok |-> io.push = "exit_success"]>>
        meta == push \o <<[op |-> "push_metadata", ok |-> io.meta]>>
        stat == meta \o <<StatCall(io)>>
        done == stat \o <<[op |-> "sleep", ms |-> 500]>>
    IN  CASE io.wait = "spawn_failed" ->
               [ops |-> wait, err |-> Some(<<"Failed to execute adb wait-for-device">>)]
          [] io.wait = "exit_failure" ->
               [ops |-> wait, err |-> Some(<<"ADB wait-for-device failed">>)]
          [] io.push = "spawn_failed" ->
               [ops |-> push, err |-> Some(<<"Failed to execute adb push">>)]
          [] io.push = "exit_failure" ->
               [ops |-> push, err |-> Some(<<"ADB push failed: ", "stderr">>)]
          [] ~io.meta ->
               [ops |-> meta, err |-> Some(<<"metadata: cannot stat file">>)]
          [] io.stat = "spawn_failed" ->
               [ops |-> stat, err |-> Some(<<"adb shell stat: cannot run">>)]
          [] OTHER -> [ops |-> done, err |-> None]

(* Faulty variant: `if !size_check.status.success() { bail!(..) }`. *)
AdbPushRun_StatExitChecked(remote_name, io) ==
    LET wait == <<[op |-> "adb_wait_for_device", ok |-> io.wait = "exit_success"]>>
        push == wait \o <<[op |-> "adb_push_file", remote_path |-> RemotePath(remote_name),
                            ok |-> io.push = "exit_success"]>>
        meta == push \o <<[op |-> "push_metadata", ok |-> io.meta]>>
        stat == meta \o <<StatCall(io)>>
        done == stat \o <<[op |-> "sleep", ms |-> 500]>>
    IN  CASE io.wait = "spawn_failed" ->
               [ops |-> wait, err |-> Some(<<"Failed to execute adb wait-for-device">>)]
          [] io.wait = "exit_failure" ->
               [ops |-> wait, err |-> Some(<<"ADB wait-for-device failed">>)]
          [] io.push = "spawn_failed" ->
               [ops |-> push, err |-> Some(<<"Failed to execute adb push">>)]
          [] io.push = "exit_failure" ->
               [ops |-> push, err |-> Some(<<"ADB push failed: ", "stderr">>)]
          [] ~io.meta ->
               [ops |-> meta, err |-> Some(<<"metadata: cannot stat file">>)]
          [] io.stat = "spawn_failed" ->
               [ops |-> stat, err |-> Some(<<"adb shell stat: cannot run">>)]
          [] io.stat = "exit_failure" ->
               [ops |-> stat, err |-> Some(<<"adb shell stat failed">>)]
          [] /\ io.stat = "exit_success"
             /\ ParseRemoteSize(io.stat_out) # io.expected_size ->
               [ops |-> stat,
                err |-> Some(<<"File size mismatch: local=", SizeStr(io.expected_size),
                               ", remote=", SizeStr(ParseRemoteSize(io.stat_out))>>)]
          [] OTHER -> [ops |-> done, err |-> None]

(* The result of adb_push: the operations it ran and its error, if any. *)
AdbPushRun(remote_name, io) ==
    LET wait == <<[op |-> "adb_wait_for_device", ok |-> io.wait = "exit_success"]>>
        push == wait \o <<[op |-> "adb_push_file", remote_path |-> RemotePath(remote_name),
                            ok |-> io.push = "exit_success"]>>
        meta == push \o <<[op |-> "push_metadata", ok |-> io.meta]>>
        stat == meta \o <<StatCall(io)>>
        done == stat \o <<[op |-> "sleep", ms |-> 500]>>
    IN  CASE io.wait = "spawn_failed" ->
               [ops |-> wait, err |-> Some(<<"Failed to execute adb wait-for-device">>)]
          [] io.wait = "exit_failure" ->
               [ops |-> wait, err |-> Some(<<"ADB wait-for-device failed">>)]
          [] io.push = "spawn_failed" ->
               [ops |-> push, err |-> Some(<<"Failed to execute adb push">>)]
          [] io.push = "exit_failure" ->
               [ops |-> push, err |-> Some(<<"ADB push failed: ", "stderr">>)]
          [] ~io.meta ->
               [ops |-> meta, err |-> Some(<<"metadata: cannot stat file">>)]
          [] io.stat = "spawn_failed" ->
               [ops |-> stat, err |-> Some(<<"adb shell stat: cannot run">>)]
          [] /\ io.stat = "exit_success"
             /\ ParseRemoteSize(io.stat_out) # io.expected_size ->
               [ops |-> stat,
                err |-> Some(<<"File size mismatch: local=", SizeStr(io.expected_size),
                               ", remote=", SizeStr(ParseRemoteSize(io.stat_out))>>)]
          [] OTHER -> [ops |-> done, err |-> None]

AdbPush(w) ==
    /\ At(w, "adb_push")
    /\ \E io \in AdbInputs :
          LET run == AdbPushRun(W(w).remote_name, io)
              ran == [W(w) EXCEPT !.ops = @ \o run.ops
                                          \o <<[op |-> "adb_push_returned",
                                                ok |-> run.err = None]>>]
          IN  IF run.err = None
              THEN Update(w, [ran EXCEPT !.pc = "progress_serial"])
              ELSE Update(w, Fail(ran, run.err[1]))
    /\ Local(w)

SendProgressSerial(w) ==
    /\ At(w, "progress_serial")
    /\ Send(w, Progress(5, <<"Sending serial commands...">>))
    /\ Update(w, [W(w) EXCEPT !.pc = "log_serial"])
    /\ Sending(w)

SendLogSerial(w) ==
    /\ At(w, "log_serial")
    /\ Send(w, Log(<<"Sending serial commands...">>))
    /\ Update(w, [W(w) EXCEPT !.pc = "open"])
    /\ Sending(w)

----------------------------------------------------------------------------
(* data.rs: the frame codec and the command message.  A byte is a number   *)
(* in 0..255; a byte string (&[u8], Vec<u8>, the bytes of a &str) is a     *)
(* sequence of bytes.                                                      *)

FRAME_MARKER == 90      \* 0x5A
ESCAPE_MARKER == 91     \* 0x5B
CRLF == <<13, 10>>      \* "\r\n"

(* The UTF-8 bytes of the string literals of the program. *)
Utf8Table ==
    "POST " :> <<80, 79, 83, 84, 32>>
 @@ " 1" :> <<32, 49>>
 @@ "SeqNumber=" :> <<83, 101, 113, 78, 117, 109, 98, 101, 114, 61>>
 @@ "ContentLength=" :> <<67, 111, 110, 116, 101, 110, 116, 76, 101, 110,
       103, 116, 104, 61>>
 @@ "Date=" :> <<68, 97, 116, 101, 61>>
 @@ "AckNumber=-1" :> <<65, 99, 107, 78, 117, 109, 98, 101, 114, 61, 45,
       49>>
 @@ "ContentType=json" :> <<67, 111, 110, 116, 101, 110, 116, 84, 121,
       112, 101, 61, 106, 115, 111, 110>>
 @@ "FileName=-1" :> <<70, 105, 108, 101, 78, 97, 109, 101, 61, 45, 49>>
 @@ "FileSize=-1" :> <<70, 105, 108, 101, 83, 105, 122, 101, 61, 45, 49>>
 @@ "ContentRange=-1" :> <<67, 111, 110, 116, 101, 110, 116, 82, 97, 110,
       103, 101, 61, 45, 49>>
 @@ "Counter=-1" :> <<67, 111, 117, 110, 116, 101, 114, 61, 45, 49>>
 @@ "msgId=-1" :> <<109, 115, 103, 73, 100, 61, 45, 49>>
 @@ "json" :> <<106, 115, 111, 110>>
 @@ "=" :> <<61>>
 @@ "all" :> <<97, 108, 108>>
 @@ "mediaDelete" :> <<109, 101, 100, 105, 97, 68, 101, 108, 101, 116,
       101>>
 @@ "waterBlockScreenId" :> <<119, 97, 116, 101, 114, 66, 108, 111, 99,
       107, 83, 99, 114, 101, 101, 110, 73, 100>>
 @@ "{\"exclude\":[\"a.png\"]}" :> <<123, 34, 101, 120, 99, 108, 117, 100,
       101, 34, 58, 91, 34, 97, 46, 112, 110, 103, 34, 93, 125>>
 @@ "{}" :> <<123, 125>>
 @@ "" :> <<>>
 @@ "SeqNumber" :> <<83, 101, 113, 78, 117, 109, 98, 101, 114>>
 @@ "AckNumber" :> <<65, 99, 107, 78, 117, 109, 98, 101, 114>>
 @@ "ContentLength" :> <<67, 111, 110, 116, 101, 110, 116, 76, 101, 110,
       103, 116, 104>>
 @@ "ContentType" :> <<67, 111, 110, 116, 101, 110, 116, 84, 121, 112,
       101>>
 @@ "FileName" :> <<70, 105, 108, 101, 78, 97, 109, 101>>
 @@ "FileSize" :> <<70, 105, 108, 101, 83, 105, 122, 101>>
 @@ "ContentRange" :> <<67, 111, 110, 116, 101, 110, 116, 82, 97, 110,
       103, 101>>
 @@ "Counter" :> <<67, 111, 117, 110, 116, 101, 114>>
 @@ "Date" :> <<68, 97, 116, 101>>
 @@ "msgId" :> <<109, 115, 103, 73, 100>>
 @@ "POST mediaDelete 1" :> <<80, 79, 83, 84, 32, 109, 101, 100, 105, 97,
       68, 101, 108, 101, 116, 101, 32, 49>>
 @@ "exclude" :> <<101, 120, 99, 108, 117, 100, 101>>
 @@ "id" :> <<105, 100>>
 @@ "media" :> <<109, 101, 100, 105, 97>>
 @@ "playMode" :> <<112, 108, 97, 121, 77, 111, 100, 101>>
 @@ "ratio" :> <<114, 97, 116, 105, 111>>
 @@ "screenMode" :> <<115, 99, 114, 101, 101, 110, 77, 111, 100, 101>>
 @@ "settings" :> <<115, 101, 116, 116, 105, 110, 103, 115>>
 @@ "sysinfoDisplay" :> <<115, 121, 115, 105, 110, 102, 111, 68, 105, 115,
       112, 108, 97, 121>>
 @@ "align" :> <<97, 108, 105, 103, 110>>
 @@ "badges" :> <<98, 97, 100, 103, 101, 115>>
 @@ "color" :> <<99, 111, 108, 111, 114>>
 @@ "filter" :> <<102, 105, 108, 116, 101, 114>>
 @@ "opacity" :> <<111, 112, 97, 99, 105, 116, 121>>
 @@ "value" :> <<118, 97, 108, 117, 101>>
 @@ "null" :> <<110, 117, 108, 108>>
 @@ "timestamp" :> <<116, 105, 109, 101, 115, 116, 97, 109, 112>>
 @@ "Customization" :> <<67, 117, 115, 116, 111, 109, 105, 122, 97, 116,
       105, 111, 110>>
 @@ "Full Screen" :> <<70, 117, 108, 108, 32, 83, 99, 114, 101, 101, 110>>
 @@ "Window" :> <<87, 105, 110, 100, 111, 119>>
 @@ "Single" :> <<83, 105, 110, 103, 108, 101>>
 @@ "2:1" :> <<50, 58, 49>>
 @@ "#dcdcdc" :> <<35, 100, 99, 100, 99, 100, 99>>
 @@ "Left" :> <<76, 101, 102, 116>>
 @@ "GPU Badge" :> <<71, 80, 85, 32, 66, 97, 100, 103, 101>>
 @@ "CPU Badge" :> <<67, 80, 85, 32, 66, 97, 100, 103, 101>>
 @@ "CPU Temperature" :> <<67, 80, 85, 32, 84, 101, 109, 112, 101, 114,
       97, 116, 117, 114, 101>>
 @@ "GPU Temperature" :> <<71, 80, 85, 32, 84, 101, 109, 112, 101, 114,
       97, 116, 117, 114, 101>>
 @@ "jpg" :> <<106, 112, 103>>
 @@ "png" :> <<112, 110, 103>>
 @@ "." :> <<46>>
 @@ "1970-01-01_00-00-00-" :> <<49, 57, 55, 48, 45, 48, 49, 45, 48, 49,
       95, 48, 48, 45, 48, 48, 45, 48, 48, 45>>

Utf8(str) == Utf8Table[str]

(* fmt::Display of an integer: decimal digits, '-' before a negative one. *)
RECURSIVE Digits(_)
Digits(n) == IF n < 10 THEN <<48 + n>> ELSE Digits(n \div 10) \o <<48 + (n % 10)>>

Display(n) == IF n < 0 THEN <<45>> \o Digits(-n) ELSE Digits(n)

(* Faulty variant: the frame marker is copied through unescaped. *)
EscapeByte_MarkerThrough(b) ==
    CASE b = 91 -> <<ESCAPE_MARKER, 2>>
      [] OTHER -> <<b>>

(* Faulty variant: the two escape codes are exchanged. *)
EscapeByte_SwappedCodes(b) ==
    CASE b = 90 -> <<ESCAPE_MARKER, 2>>
      [] b = 91 -> <<ESCAPE_MARKER, 1>>
      [] OTHER -> <<b>>

(* Faulty variant: both reserved values get the escape code 0x01. *)
EscapeByte_OneCode(b) ==
    CASE b = 90 -> <<ESCAPE_MARKER, 1>>
      [] b = 91 -> <<ESCAPE_MARKER, 1>>
      [] OTHER -> <<b>>

(* Faulty variant: the escape marker itself is copied through. *)
EscapeByte_BareEscape(b) ==
    CASE b = 90 -> <<ESCAPE_MARKER, 1>>
      [] OTHER -> <<b>>

(* What one pass of the loop of escape_data pushes for the byte b. *)
EscapeByte(b) ==
    CASE b = 90 -> <<ESCAPE_MARKER, 1>>
      [] b = 91 -> <<ESCAPE_MARKER, 2>>
      [] OTHER -> <<b>>

(* for &b in data[lo..=hi] { match b { .. } }: what the passes push, in    *)
(* order.  The slice is halved so that the depth of the recursion stays    *)
(* logarithmic in its length.                                              *)
RECURSIVE escape_slice(_, _, _)
escape_slice(data, lo, hi) ==
    IF lo > hi THEN <<>>
    ELSE IF lo = hi THEN EscapeByte(data[lo])
    ELSE LET mid == (lo + hi) \div 2
         IN  escape_slice(data, lo, mid) \o escape_slice(data, mid + 1, hi)

escape_data(data) == escape_slice(data, 1, Len(data))

(* Faulty variant: u8::saturating_add. *)
saturating_add(a, b) == IF a + b > 255 THEN 255 ELSE a + b

(* u8::wrapping_add *)
wrapping_add(a, b) == (a + b) % 256

(* data[lo..=hi].iter().fold(0u8, |acc, &b| acc.wrapping_add(b)); the      *)
(* addition is associative, and the slice is halved as in escape_slice.    *)
RECURSIVE crc_slice(_, _, _)
crc_slice(data, lo, hi) ==
    IF lo > hi THEN 0
    ELSE IF lo = hi THEN wrapping_add(0, data[lo])
    ELSE LET mid == (lo + hi) \div 2
         IN  wrapping_add(crc_slice(data, lo, mid), crc_slice(data, mid + 1, hi))

calc_crc(data) == crc_slice(data, 1, Len(data))

(* usize as u16 *)
as_u16(n) == n % 65536

(* u16::to_be_bytes *)
to_be_bytes(n) == <<n \div 256, n % 256>>

(* Faulty variant: length and checksum are taken over the raw message. *)
build_frame_OverRaw(message) ==
    LET escaped == escape_data(message)
        length == as_u16(Len(message))
    IN  <<FRAME_MARKER>> \o to_be_bytes(length) \o escaped
            \o <<calc_crc(message)>> \o <<FRAME_MARKER>>

build_frame(message) ==
    LET escaped == escape_data(message)
        length == as_u16(Len(escaped))
    IN  <<FRAME_MARKER>> \o to_be_bytes(length) \o escaped
            \o <<calc_crc(escaped)>> \o <<FRAME_MARKER>>

(* Faulty variant: ContentLength counts the blank line with the body. *)
build_message_CountsBlankLine(cmd_type, json_content, now) ==
    LET seq == now % 100000
        ts == now
        headers ==
            Utf8("SeqNumber=") \o Display(seq) \o CRLF
                \o Utf8("AckNumber=-1") \o CRLF
                \o Utf8("ContentLength=") \o Display(Len(json_content) + 2) \o CRLF
                \o Utf8("ContentType=json") \o CRLF
                \o Utf8("FileName=-1") \o CRLF
                \o Utf8("FileSize=-1") \o CRLF
                \o Utf8("ContentRange=-1") \o CRLF
                \o Utf8("Counter=-1") \o CRLF
                \o Utf8("Date=") \o Display(ts) \o CRLF
                \o Utf8("msgId=-1")
    IN  Utf8("POST ") \o cmd_type \o Utf8(" 1") \o CRLF
            \o headers \o CRLF \o CRLF \o json_content

(* build_message; `now` is the reading of SystemTime::now() in epoch        *)
(* milliseconds.                                                           *)
build_message(cmd_type, json_content, now) ==
    LET seq == now % 100000
        ts == now
        headers ==
            Utf8("SeqNumber=") \o Display(seq) \o CRLF
                \o Utf8("AckNumber=-1") \o CRLF
                \o Utf8("ContentLength=") \o Display(Len(json_content)) \o CRLF
                \o Utf8("ContentType=json") \o CRLF
                \o Utf8("FileName=-1") \o CRLF
                \o Utf8("FileSize=-1") \o CRLF
                \o Utf8("ContentRange=-1") \o CRLF
                \o Utf8("Counter=-1") \o CRLF
                \o Utf8("Date=") \o Display(ts) \o CRLF
                \o Utf8("msgId=-1")
    IN  Utf8("POST ") \o cmd_type \o Utf8(" 1") \o CRLF
            \o headers \o CRLF \o CRLF \o json_content

(* Faulty variant: the sequence number is the clock reading, unreduced. *)
CommandMessage_SeqUnreduced(cmd_type, body, now) ==
    [ cmd_type |-> cmd_type,
      seq_number |-> now,
      ack_number |-> -1,
      content_type |-> "json",
      body |-> body,
      date |-> now,
      file_name |-> -1,
      file_size |-> -1,
      content_range |-> -1,
      counter |-> -1,
      msg_id |-> -1 ]

(* CommandMessage::new; `now` is the reading of SystemTime::now() in epoch *)
(* milliseconds.                                                           *)
CommandMessage(cmd_type, body, now) ==
    [ cmd_type |-> cmd_type,
      seq_number |-> now % 100000,
      ack_number |-> -1,
      content_type |-> "json",
      body |-> body,
      date |-> now,
      file_name |-> -1,
      file_size |-> -1,
      content_range |-> -1,
      counter |-> -1,
      msg_id |-> -1 ]

(* CommandMessage::write_header: "{name}={value}\r\n" *)
write_header(out, name, value) == out \o name \o Utf8("=") \o value \o CRLF

(* CommandMessage::to_bytes *)
to_bytes(self) ==
    LET line == Utf8("POST ") \o self.cmd_type \o Utf8(" 1") \o CRLF
        h1 == write_header(line, Utf8("SeqNumber"), Display(self.seq_number))
        h2 == write_header(h1, Utf8("AckNumber"), Display(self.ack_number))
        h3 == write_header(h2, Utf8("ContentLength"), Display(Len(self.body)))
        h4 == write_header(h3, Utf8("ContentType"), Utf8(self.content_type))
        h5 == write_header(h4, Utf8("FileName"), Display(self.file_name))
        h6 == write_header(h5, Utf8("FileSize"), Display(self.file_size))
        h7 == write_header(h6, Utf8("ContentRange"), Display(self.content_range))
        h8 == write_header(h7, Utf8("Counter"), Display(self.counter))
        h9 == write_header(h8, Utf8("Date"), Display(self.date))
        h10 == write_header(h9, Utf8("msgId"), Display(self.msg_id))
    IN  h10 \o CRLF \o self.body

(* The functions of data.rs called on their own, once in a behaviour, on   *)
(* inputs of every shape: short byte strings over the two reserved values, *)
(* the two escape codes, a letter and 0xFF, and two long ones around the   *)
(* largest length a u16 holds.                                             *)

ByteValues == { 1, 2, 65, 90, 91, 255 }
Messages == UNION { [1..n -> ByteValues] : n \in 0..MaxLen }
LongMessages == { [k \in 1..65535 |-> 65], [k \in 1..32768 |-> 90] }

CommandNames == { Utf8("all"), Utf8("mediaDelete"), Utf8("waterBlockScreenId") }
Bodies == { Utf8(""), Utf8("{}"), Utf8("{\"exclude\":[\"a.png\"]}") }
(* Readings of the clock, in epoch milliseconds; the integers of the model *)
(* end at 2^31 - 1, so a reading stands for a moment early in 1970.        *)
Clock == { 0, 99999, 100000, 1234567890 }

CodecOnly ==
    UNCHANGED <<app_state, queue, workers, fg, start_result, sent, applied>>

CallEscapeData ==
    /\ codec = NoCall
    /\ \E data \in Messages :
          codec' = [fn |-> "escape_data", data |-> data,
                    result |-> escape_data(data)]
    /\ CodecOnly

CallCalcCrc ==
    /\ codec = NoCall
    /\ \E data \in Messages :
          codec' = [fn |-> "calc_crc", data |-> data, result |-> calc_crc(data)]
    /\ CodecOnly

CallBuildFrame ==
    /\ codec = NoCall
    /\ \E message \in Messages \cup LongMessages :
          codec' = [fn |-> "build_frame", message |-> message,
                    result |-> build_frame(message)]
    /\ CodecOnly

CallBuildMessage ==
    /\ codec = NoCall
    /\ \E cmd_type \in CommandNames, json_content \in Bodies, now \in Clock :
          codec' = [fn |-> "build_message", cmd_type |-> cmd_type,
                    json_content |-> json_content, now |-> now,
                    result |-> build_message(cmd_type, json_content, now)]
    /\ CodecOnly

CallToBytes ==
    /\ codec = NoCall
    /\ \E cmd_type \in CommandNames, json_content \in Bodies, now \in Clock :
          codec' = [fn |-> "to_bytes", cmd_type |-> cmd_type,
                    json_content |-> json_content, now |-> now,
                    result |-> to_bytes(CommandMessage(cmd_type, json_content,
                                                       now))]
    /\ CodecOnly

CodecNext ==
    \/ CallEscapeData \/ CallCalcCrc \/ CallBuildFrame
    \/ CallBuildMessage \/ CallToBytes

CodecSpec == Init /\ [][CodecNext]_vars

----------------------------------------------------------------------------
(* AioCoolerController::send_image_commands.                               *)

(* The serde_json::Value of each command body. *)

MediaDeleteBody(file_name) == [exclude |-> <<file_name>>]

ScreenConfigBody(file_name, config) ==
    [ id |-> config.id,
      screenMode |-> config.screen_mode,
      playMode |-> config.play_mode,
      ratio |-> config.ratio,
      media |-> <<file_name>>,
      settings |-> [ color |-> config.color,
                     align |-> config.align,
                     filter |-> [value |-> "null", opacity |-> config.filter_opacity],
                     badges |-> config.badges ],
      sysinfoDisplay |-> config.sysinfo_display ]

(* serde_json::to_value(&info): of the readings of a snapshot the model    *)
(* keeps the capture timestamp, the n-th snapshot of a session being       *)
(* taken at n.                                                             *)
SysInfoBody(n) == [timestamp |-> n]

(* generate_filename: "%Y-%m-%d_%H-%M-%S-%3f.{extension}" of a local time  *)
(* `stamp` milliseconds after 1970-01-01 00:00:00.                          *)
Pad3(n) == [k \in 1..(3 - Len(Digits(n))) |-> 48] \o Digits(n)
FileNameBytes(name) ==
    Utf8("1970-01-01_00-00-00-") \o Pad3(name.stamp) \o Utf8(".") \o Utf8(name.ext)

(* serde_json::to_string.  A string is quoted, '"' and '\' in it escaped   *)
(* by '\'; the members of an array and of an object are joined by ','; an  *)
(* object is a serde_json::Map, which keeps its keys sorted.               *)
JsonChar(b) == IF b = 34 \/ b = 92 THEN <<92, b>> ELSE <<b>>

RECURSIVE Concat(_)
Concat(parts) == IF parts = <<>> THEN <<>> ELSE Head(parts) \o Concat(Tail(parts))

RECURSIVE Join(_)
Join(parts) ==
    IF parts = <<>> THEN <<>>
    ELSE IF Len(parts) = 1 THEN parts[1]
    ELSE parts[1] \o <<44>> \o Join(Tail(parts))

JsonString(bytes) ==
    <<34>> \o Concat([k \in 1..Len(bytes) |-> JsonChar(bytes[k])]) \o <<34>>

JsonArray(items) == <<91>> \o Join(items) \o <<93>>

JsonObject(members) ==
    <<123>> \o Join([k \in 1..Len(members) |->
                        JsonString(Utf8(members[k][1])) \o <<58>> \o members[k][2]])
            \o <<125>>

JsonStrings(strs) == JsonArray([k \in 1..Len(strs) |-> JsonString(Utf8(strs[k]))])

to_string(value) ==
    CASE "exclude" \in DOMAIN value ->
           JsonObject(<< <<"exclude",
                           JsonArray(<<JsonString(FileNameBytes(value.exclude[1]))>>)>> >>)
      [] "media" \in DOMAIN value ->
           JsonObject(<<
               <<"id", JsonString(Utf8(value.id))>>,
               <<"media", JsonArray(<<JsonString(FileNameBytes(value.media[1]))>>)>>,
               <<"playMode", JsonString(Utf8(value.playMode))>>,
               <<"ratio", JsonString(Utf8(value.ratio))>>,
               <<"screenMode", JsonString(Utf8(value.screenMode))>>,
               <<"settings", JsonObject(<<
                   <<"align", JsonString(Utf8(value.settings.align))>>,
                   <<"badges", JsonStrings(value.settings.badges)>>,
                   <<"color", JsonString(Utf8(value.settings.color))>>,
                   <<"filter", JsonObject(<<
                       <<"opacity", Display(value.settings.filter.opacity)>>,
                       <<"value", Utf8(value.settings.filter.value)>> >>)>> >>)>>,
               <<"sysinfoDisplay", JsonStrings(value.sysinfoDisplay)>> >>)
      [] "timestamp" \in DOMAIN value ->
           JsonObject(<< <<"timestamp", Display(value.timestamp)>> >>)

(* The clock of a worker thread: one millisecond passes with each of its   *)
(* operations.                                                             *)
NowAt(ops) == Len(ops)

WriteOutcomes == { "ok", "write_failed", "flush_failed" }

(* port.write_all(&frame) in the trace of the thread: the call, and with   *)
(* it the bytes of the frame when send_command is under test.              *)
WriteAll(call, frame) ==
    IF codec = SendCommandTraced
    THEN [op |-> call.op, cmd |-> call.cmd, body |-> call.body, now |-> call.now,
          frame |-> frame, ok |-> call.ok]
    ELSE call

(* Faulty variant: the message goes to the port as it is, unframed. *)
SendCommandRun_Unframed(cmd, body, now, io) ==
    LET json_content == to_string(body)
        message == build_message(Utf8(cmd), json_content, now)
        call == [op |-> "write_all", cmd |-> cmd, body |-> body, now |-> now,
                 ok |-> io # "write_failed"]
        write == <<WriteAll(call, message)>>
        flush == write \o <<[op |-> "flush", cmd |-> cmd, ok |-> io = "ok"]>>
    IN  CASE io = "write_failed" -> [ops |-> write, err |-> Some(<<"write_all failed">>)]
          [] io = "flush_failed" -> [ops |-> flush, err |-> Some(<<"flush failed">>)]
          [] OTHER -> [ops |-> flush, err |-> None]

(* data.rs send_command: the body is serialised, wrapped in a message and  *)
(* framed; then write_all(&frame)?; flush()?;                               *)
SendCommandRun(cmd, body, now, io) ==
    LET json_content == to_string(body)
        message == build_message(Utf8(cmd), json_content, now)
        frame == build_frame(message)
        call == [op |-> "write_all", cmd |-> cmd, body |-> body, now |-> now,
                 ok |-> io # "write_failed"]
        write == <<WriteAll(call, frame)>>
        flush == write \o <<[op |-> "flush", cmd |-> cmd, ok |-> io = "ok"]>>
    IN  CASE io = "write_failed" -> [ops |-> write, err |-> Some(<<"write_all failed">>)]
          [] io = "flush_failed" -> [ops |-> flush, err |-> Some(<<"flush failed">>)]
          [] OTHER -> [ops |-> flush, err |-> None]

(* data.rs send_state_command, imported by screen_setup.rs:6: a telemetry  *)
(* command goes through the message builder and the frame codec like any   *)
(* other.                                                                  *)
SendStateCommandRun(cmd, body, now, io) ==
    LET json_content == to_string(body)
        message == build_message(Utf8(cmd), json_content, now)
        frame == build_frame(message)
        call == [op |-> "write_all", cmd |-> cmd, body |-> body, now |-> now,
                 ok |-> io # "write_failed"]
        write == <<WriteAll(call, frame)>>
        flush == write \o <<[op |-> "flush", cmd |-> cmd, ok |-> io = "ok"]>>
    IN  CASE io = "write_failed" -> [ops |-> write, err |-> Some(<<"write_all failed">>)]
          [] io = "flush_failed" -> [ops |-> flush, err |-> Some(<<"flush failed">>)]
          [] OTHER -> [ops |-> flush, err |-> None]

(* Faulty variant: the snapshot of the first send is kept and sent again. *)
SendSysinfoRun_Cached(n, now, io) ==
    LET run == SendStateCommandRun("all", SysInfoBody(1), now, io)
        read == IF n = 1 THEN <<[op |-> "get_sysinfo", snapshot |-> 1]>> ELSE <<>>
    IN  [ops |-> read \o run.ops, err |-> run.err]

(* AioCoolerController::send_sysinfo: a snapshot read now, sent as "all".  *)
(* The n-th snapshot of the session stands for the readings taken then.    *)
SendSysinfoRun(n, now, io) ==
    LET run == SendStateCommandRun("all", SysInfoBody(n), now, io)
    IN  [ops |-> <<[op |-> "get_sysinfo", snapshot |-> n]>> \o run.ops,
         err |-> run.err]

Sleep(ms) == [op |-> "sleep", ms |-> ms]

KeepaliveCount == 5

(* Faulty variant: the result of the step is dropped (`let _ = step(..);`), *)
(* so the session goes on after a transport error.                         *)
SessionStep_IgnoreError(w, run, after, next) ==
    Update(w, [W(w) EXCEPT !.ops = @ \o run.ops \o after,
                           !.pc = next.pc, !.i = next.i])

(* One fallible step of the session, `step(..)?;`: on Ok the pause that    *)
(* follows it and the next position, on Err the return of the error.       *)
SessionStep(w, run, after, next) ==
    LET ran == [W(w) EXCEPT !.ops = @ \o run.ops]
    IN  IF run.err = None
        THEN Update(w, [ran EXCEPT !.ops = @ \o after, !.pc = next.pc, !.i = next.i])
        ELSE Update(w, Fail(ran, run.err[1]))

Goto(w, pc) == [pc |-> pc, i |-> W(w).i]

OpenPort(w) ==
    /\ At(w, "open")
    /\ \E ok \in BOOLEAN :
          LET ran == [W(w) EXCEPT !.ops = Append(@, [op |-> "open",
                                                     device |-> W(w).serial_device,
                                                     ok |-> ok])]
          IN  IF ok
              THEN Update(w, [ran EXCEPT !.pc = "settle"])
              ELSE Update(w, Fail(ran, <<"Failed to open serial port">>))
    /\ Local(w)

(* Faulty variant: `port.clear(All)?;`, the error of the clear returned. *)
Settle_ClearChecked(w) ==
    /\ At(w, "settle")
    /\ \E ok \in BOOLEAN :
          LET ran == [W(w) EXCEPT
                         !.ops = @ \o <<Sleep(100), [op |-> "clear", ok |-> ok]>>]
          IN  IF ok
              THEN Update(w, [ran EXCEPT !.pc = "initial_sysinfo"])
              ELSE Update(w, Fail(ran, <<"clear failed">>))
    /\ Local(w)

(* sleep(100); let _ = port.clear(All); *)
Settle(w) ==
    /\ At(w, "settle")
    /\ \E ok \in BOOLEAN :
          Update(w, [W(w) EXCEPT !.ops = @ \o <<Sleep(100), [op |-> "clear", ok |-> ok]>>,
                                 !.pc = "initial_sysinfo"])
    /\ Local(w)

SendInitialSysinfo(w) ==
    /\ At(w, "initial_sysinfo")
    /\ \E io \in WriteOutcomes :
          SessionStep(w, SendSysinfoRun(1, NowAt(W(w).ops), io), <<Sleep(200)>>,
                      Goto(w, "media_delete"))
    /\ Local(w)

(* Faulty variant: the name is generated anew for the cleanup command. *)
SendMediaDelete_NewName(w) ==
    /\ At(w, "media_delete")
    /\ \E io \in WriteOutcomes, stamp \in Stamps :
          SessionStep(w, SendCommandRun("mediaDelete",
                                        MediaDeleteBody([stamp |-> stamp,
                                                         ext |-> W(w).remote_name.ext]),
                                        NowAt(W(w).ops), io),
                      <<Sleep(300)>>, Goto(w, "keepalive"))
    /\ Local(w)

SendMediaDelete(w) ==
    /\ At(w, "media_delete")
    /\ \E io \in WriteOutcomes :
          SessionStep(w, SendCommandRun("mediaDelete",
                                        MediaDeleteBody(W(w).remote_name),
                                        NowAt(W(w).ops), io),
                      <<Sleep(300)>>, Goto(w, "keepalive"))
    /\ Local(w)

(* Faulty variant: no keepalive between the cleanup and the configuration. *)
SendKeepalive_Skipped(w) ==
    /\ At(w, "keepalive")
    /\ Update(w, [W(w) EXCEPT !.pc = "screen_config"])
    /\ Local(w)

SendKeepalive(w) ==
    /\ At(w, "keepalive")
    /\ \E io \in WriteOutcomes :
          SessionStep(w, SendSysinfoRun(2, NowAt(W(w).ops), io), <<Sleep(200)>>,
                      Goto(w, "screen_config"))
    /\ Local(w)

(* Faulty variant: the configuration is read from the app when it is sent. *)
SendScreenConfig_ReadsApp(w) ==
    /\ At(w, "screen_config")
    /\ \E io \in WriteOutcomes :
          SessionStep(w, SendCommandRun("waterBlockScreenId",
                                        ScreenConfigBody(W(w).remote_name, screen_config),
                                        NowAt(W(w).ops), io),
                      <<>>, Goto(w, "sysinfo_updates"))
    /\ Local(w)

SendScreenConfig(w) ==
    /\ At(w, "screen_config")
    /\ \E io \in WriteOutcomes :
          SessionStep(w, SendCommandRun("waterBlockScreenId",
                                        ScreenConfigBody(W(w).remote_name, W(w).config),
                                        NowAt(W(w).ops), io),
                      <<>>, Goto(w, "sysinfo_updates"))
    /\ Local(w)

(* Faulty variant: the pause comes after the send, not before it. *)
SendSysinfoUpdate_PauseAfter(w) ==
    /\ At(w, "sysinfo_updates")
    /\ W(w).i < KeepaliveCount
    /\ \E io \in WriteOutcomes :
          SessionStep(w, SendSysinfoRun(3 + W(w).i, NowAt(W(w).ops), io),
                      <<Sleep(800)>>, [pc |-> "sysinfo_updates", i |-> W(w).i + 1])
    /\ Local(w)

(* for i in 0..5 { sleep(800); self.send_sysinfo(&mut port)?; } *)
SendSysinfoUpdate(w) ==
    /\ At(w, "sysinfo_updates")
    /\ W(w).i < KeepaliveCount
    /\ \E io \in WriteOutcomes :
          LET send == SendSysinfoRun(3 + W(w).i, NowAt(W(w).ops) + 800, io)
              run == [ops |-> <<Sleep(800)>> \o send.ops, err |-> send.err]
          IN  SessionStep(w, run, <<>>, [pc |-> "sysinfo_updates", i |-> W(w).i + 1])
    /\ Local(w)

(* The loop is over: send_image_commands returns Ok(()). *)
SessionReturn(w) ==
    /\ At(w, "sysinfo_updates")
    /\ W(w).i = KeepaliveCount
    /\ Update(w, [W(w) EXCEPT !.pc = "log_complete"])
    /\ Local(w)

(* Faulty variant: the closure reports success itself, and the match after *)
(* it reports it again.                                                    *)
SendLogComplete_AlsoSuccess(w) ==
    /\ At(w, "log_complete")
    /\ Send(w, Success(<<"Transfer complete!">>))
    /\ Update(w, [W(w) EXCEPT !.result = "Ok", !.pc = "match"])
    /\ Sending(w)

SendLogComplete(w) ==
    /\ At(w, "log_complete")
    /\ Send(w, Log(<<"Transfer complete!">>))
    /\ Update(w, [W(w) EXCEPT !.result = "Ok", !.pc = "match"])
    /\ Sending(w)

(* The locals of a thread that has ended: all dropped, the port among them. *)
Exited == [NewWorker([stem |-> "", ext |-> None], "", DefaultScreenConfig)
               EXCEPT !.pc = "done"]

(* Faulty variant: the result of the closure is not looked at. *)
SendTerminal_AlwaysSuccess(w) ==
    /\ At(w, "match")
    /\ Send(w, Success(<<"Transfer complete!">>))
    /\ Update(w, Exited)
    /\ Sending(w)

(* match result { Ok(()) => Success, Err(e) => Error(format!("{:#}", e)) }  *)
(* The send is the last statement of the closure: the thread ends with it.  *)
SendTerminal(w) ==
    /\ At(w, "match")
    /\ IF W(w).result = "Ok"
       THEN Send(w, Success(<<"Transfer complete!">>))
       ELSE Send(w, Error(W(w).err))
    /\ Update(w, Exited)
    /\ Sending(w)

Orchestrate(w) ==
    \/ SendProgressMd5(w) \/ SendLogMd5(w) \/ CalculateMd5(w) \/ Metadata(w)
    \/ GenerateFilename(w) \/ SendLogFile(w) \/ SendProgressPush(w)
    \/ SendLogPush(w) \/ AdbPush(w) \/ SendProgressSerial(w) \/ SendLogSerial(w)
    \/ SendLogComplete(w) \/ SendTerminal(w)

SendImageCommands(w) ==
    \/ OpenPort(w) \/ Settle(w) \/ SendInitialSysinfo(w) \/ SendMediaDelete(w)
    \/ SendKeepalive(w) \/ SendScreenConfig(w) \/ SendSysinfoUpdate(w)
    \/ SessionReturn(w)

Worker == \E w \in WorkerIds : Orchestrate(w) \/ SendImageCommands(w)

Foreground == ProcessMessages \/ StartTransfer \/ SelectImage(Images)

Next ==
    \/ RecvMessage \/ ProcessMessagesReturn
    \/ StartTransferBusy \/ StartTransferNoImage \/ StartTransferSpawn
    \/ SelectImage(Images)
    \/ \E w \in WorkerIds :
          \/ SendProgressMd5(w) \/ SendLogMd5(w) \/ CalculateMd5(w) \/ Metadata(w)
          \/ GenerateFilename(w) \/ SendLogFile(w) \/ SendProgressPush(w)
          \/ SendLogPush(w) \/ AdbPush(w) \/ SendProgressSerial(w)
          \/ SendLogSerial(w) \/ OpenPort(w) \/ Settle(w)
          \/ SendInitialSysinfo(w) \/ SendMediaDelete(w) \/ SendKeepalive(w)
          \/ SendScreenConfig(w) \/ SendSysinfoUpdate(w) \/ SessionReturn(w)
          \/ SendLogComplete(w) \/ SendTerminal(w)

Spec == Init /\ [][Next]_vars

(* One transfer, with every input of it edited while it runs. *)
Edits == SelectImage(OtherImages) \/ EditScreenMode \/ EditSerialDevice

EditNext ==
    \/ RecvMessage \/ ProcessMessagesReturn
    \/ StartTransferBusy \/ StartTransferNoImage
    \/ (workers = <<>> /\ StartTransferSpawn)
    \/ SelectImage(Images) \/ SelectImage(OtherImages)
    \/ EditScreenMode \/ EditSerialDevice
    \/ \E w \in WorkerIds : Orchestrate(w) \/ SendImageCommands(w)

EditSpec == Init /\ [][EditNext]_vars

(* The scheduling the program runs under: the worker thread runs to its    *)
(* end, and eframe calls update, and so process_messages, again and again  *)
(* while is_processing is set (main.rs: ctx.request_repaint()).            *)
LiveSpec == Spec /\ WF_vars(Worker) /\ WF_vars(ProcessMessages)

(* A worker that only logs: tx.send(AppMessage::Log(..)), any number of    *)
(* times.  The text of a line is its serial number, so that every line is  *)
(* told from every other.                                                   *)
LogLine(n) == <<"line", n>>

SendLogLine ==
    /\ Len(sent) < MaxLogs
    /\ Send(1, Log(LogLine(Len(sent) + 1)))
    /\ UNCHANGED <<app_state, workers, fg, start_result, applied, codec>>

LogNext == SendLogLine \/ RecvMessage \/ ProcessMessagesReturn

LogSpec == Init /\ [][LogNext]_vars

(* One transfer with send_command under test. *)
WireInit ==
    /\ serial_device = "/dev/ttyACM0"
    /\ selected_image = None
    /\ screen_config = DefaultScreenConfig
    /\ is_processing = FALSE
    /\ progress = 0
    /\ status_message = <<"Ready">>
    /\ log_messages = <<>>
    /\ queue = <<>>
    /\ workers = <<>>
    /\ fg = "idle"
    /\ start_result = "none"
    /\ sent = <<>>
    /\ applied = <<>>
    /\ codec = SendCommandTraced

WireNext ==
    \/ RecvMessage \/ ProcessMessagesReturn
    \/ StartTransferBusy \/ StartTransferNoImage
    \/ (workers = <<>> /\ StartTransferSpawn)
    \/ SelectImage(Images)
    \/ \E w \in WorkerIds : Orchestrate(w) \/ SendImageCommands(w)

WireSpec == WireInit /\ [][WireNext]_vars

(* One transfer with adb_push under test. *)
PushInit ==
    /\ serial_device = "/dev/ttyACM0"
    /\ selected_image = None
    /\ screen_config = DefaultScreenConfig
    /\ is_processing = FALSE
    /\ progress = 0
    /\ status_message = <<"Ready">>
    /\ log_messages = <<>>
    /\ queue = <<>>
    /\ workers = <<>>
    /\ fg = "idle"
    /\ start_result = "none"
    /\ sent = <<>>
    /\ applied = <<>>
    /\ codec = AdbPushTraced

PushNext ==
    \/ RecvMessage \/ ProcessMessagesReturn
    \/ StartTransferBusy \/ StartTransferNoImage
    \/ (workers = <<>> /\ StartTransferSpawn)
    \/ SelectImage(Images)
    \/ \E w \in WorkerIds : Orchestrate(w) \/ SendImageCommands(w)

PushSpec == PushInit /\ [][PushNext]_vars

----------------------------------------------------------------------------
(* Properties *)

Ops(w) == workers[w].ops
Writes(ops) == SelectSeq(ops, LAMBDA o : o.op = "write_all")
Commands(ops) == [k \in 1..Len(Writes(ops)) |-> Writes(ops)[k].cmd]
IsPrefix(s, t) == Len(s) <= Len(t) /\ s = SubSeq(t, 1, Len(s))
Has(ops, name, ok) == \E k \in 1..Len(ops) : ops[k].op = name /\ ops[k].ok = ok

ImageCommandSequence ==
    << "all", "mediaDelete", "all", "waterBlockScreenId",
       "all", "all", "all", "all", "all" >>

IsTransportFailure(o) == o.op \in {"write_all", "flush"} /\ ~o.ok
TransportFailed(ops) == \E k \in 1..Len(ops) : IsTransportFailure(ops[k])
SessionReturned(w) == workers[w].pc \in {"log_complete", "match"}

TerminalTypes == {"Success", "Error"}
SentBy(w) == SelectSeq(sent, LAMBDA e : e.w = w)
TerminalsBy(w) == { k \in 1..Len(sent) : sent[k].w = w /\ sent[k].type \in TerminalTypes }

(* This step is a send by worker w of an event of the given kind. *)
SendsNow(w, type) ==
    /\ Len(sent') = Len(sent) + 1
    /\ sent'[Len(sent')] = [w |-> w, type |-> type]

(* C1: a session on an opened port that has returned with no failed write  *)
(* or flush has written exactly the 9 commands all, mediaDelete, all,      *)
(* waterBlockScreenId, all x 5, in this order.                              *)
C1_NineCommandsInOrder ==
    \A w \in DOMAIN workers :
        ( /\ SessionReturned(w)
          /\ Has(Ops(w), "open", TRUE)
          /\ ~TransportFailed(Ops(w)) )
        => Commands(Ops(w)) = ImageCommandSequence

C1_Witness ==
    \E w \in DOMAIN workers :
        /\ workers[w].pc = "match"
        /\ workers[w].result = "Ok"
        /\ Len(Writes(Ops(w))) = 9
        /\ ~TransportFailed(Ops(w))

C2_FailureState ==
    \A w \in DOMAIN workers :
        /\ IsPrefix(Commands(Ops(w)), ImageCommandSequence)
        /\ \A k \in 1..Len(Ops(w)) :
              IsTransportFailure(Ops(w)[k]) =>
                  /\ k = Len(Ops(w))
                  /\ workers[w].pc = "match"
                  /\ workers[w].result = "Err"
                  /\ TerminalsBy(w) = {}

C2_FailureStep ==
    \A w \in DOMAIN workers :
        (TransportFailed(Ops(w)) /\ workers'[w] # workers[w]) =>
            /\ SendsNow(w, "Error")
            /\ workers'[w].pc = "done"

(* C2: a failed write or flush is the last thing the session does: nothing *)
(* is attempted after it, the commands written are at every moment a       *)
(* prefix of the 9-command sequence, the worker has sent no terminal event *)
(* before it, and the one event the worker then sends is Error, its last.  *)
C2_AbortOnTransportError == []C2_FailureState /\ [][C2_FailureStep]_vars

C2_Witness ==
    \E w \in DOMAIN workers :
        /\ Len(Writes(Ops(w))) = 7
        /\ IsTransportFailure(Ops(w)[Len(Ops(w))])
        /\ workers[w].pc = "match"

ActiveWorkers == { w \in DOMAIN workers : workers[w].pc # "done" }

C3_SingleFlightState == Cardinality(ActiveWorkers) <= 1

C3_BusyStartStep ==
    (is_processing /\ StartTransfer) =>
        UNCHANGED <<app_state, queue, workers, sent, applied, fg>>

(* C3: at most one worker that has not yet sent its terminal event exists, *)
(* and a start_transfer call made while is_processing is set spawns no     *)
(* worker, sends no event and changes no field of the app state.           *)
C3_SingleFlight == []C3_SingleFlightState /\ [][C3_BusyStartStep]_vars

C3_Witness ==
    /\ start_result = "busy"
    /\ is_processing
    /\ Cardinality(ActiveWorkers) = 1
    /\ Len(workers) = 2

(* C4: a worker has sent no terminal event while it runs and exactly one,  *)
(* Success or Error, once it has ended, and that event is the last one it  *)
(* sent; nothing but a worker sends.                                       *)
C4_OneTerminalLast ==
    /\ \A k \in 1..Len(sent) : sent[k].w \in DOMAIN workers
    /\ \A w \in DOMAIN workers :
          IF workers[w].pc = "done"
          THEN /\ Cardinality(TerminalsBy(w)) = 1
               /\ SentBy(w)[Len(SentBy(w))].type \in TerminalTypes
          ELSE TerminalsBy(w) = {}

C4_Witness ==
    \E w \in DOMAIN workers :
        /\ workers[w].pc = "done"
        /\ Len(SentBy(w)) = 9
        /\ SentBy(w)[9].type = "Success"
        /\ \A k \in 1..8 : SentBy(w)[k].type \in {"Log", "Progress"}

AllStepsOk(ops) ==
    /\ Has(ops, "calculate_md5", TRUE) /\ ~Has(ops, "calculate_md5", FALSE)
    /\ Has(ops, "metadata", TRUE) /\ ~Has(ops, "metadata", FALSE)
    /\ Has(ops, "adb_push_returned", TRUE) /\ ~Has(ops, "adb_push_returned", FALSE)
    /\ Has(ops, "open", TRUE) /\ ~Has(ops, "open", FALSE)
    /\ ~TransportFailed(ops)
    /\ Commands(ops) = ImageCommandSequence
    /\ Len(SelectSeq(ops, LAMBDA o : o.op = "flush")) = 9

C5_SuccessStep ==
    \A w \in DOMAIN workers : SendsNow(w, "Success") => AllStepsOk(Ops(w))

(* C5: a Success event is sent only by a worker whose hash, ADB push, port *)
(* open and all 9 command writes and flushes returned without error, the   *)
(* full 9-command sequence being written by then.                          *)
C5_SuccessOnlyAfterAllSteps == [][C5_SuccessStep]_vars

C5_Witness ==
    \E k \in 1..Len(sent) : sent[k].type = "Success"

PipelineSteps ==
    { "calculate_md5", "metadata", "adb_wait_for_device", "adb_push_file",
      "adb_push_returned", "open", "write_all" }

Rank(name) ==
    CASE name = "calculate_md5" -> 1
      [] name = "metadata" -> 2
      [] name = "adb_wait_for_device" -> 3
      [] name = "adb_push_file" -> 4
      [] name = "adb_push_returned" -> 5
      [] name = "open" -> 6
      [] name = "write_all" -> 7

IsStepFailure(o) ==
    o.op \in {"calculate_md5", "metadata", "adb_push_returned", "open"} /\ ~o.ok
StepFailed(ops) == \E k \in 1..Len(ops) : IsStepFailure(ops[k])
Invoked(ops, name) == \E k \in 1..Len(ops) : ops[k].op = name

C6_PipelineState ==
    \A w \in DOMAIN workers :
        LET ops == Ops(w) IN
        /\ \A j, k \in 1..Len(ops) :
              (j < k /\ ops[j].op \in PipelineSteps /\ ops[k].op \in PipelineSteps)
              => /\ Rank(ops[j].op) <= Rank(ops[k].op)
                 /\ Rank(ops[j].op) = Rank(ops[k].op) => ops[j].op = "write_all"
        /\ (Has(ops, "calculate_md5", FALSE) \/ Has(ops, "metadata", FALSE))
              => ~Invoked(ops, "adb_wait_for_device")
        /\ Has(ops, "adb_push_returned", FALSE) => ~Invoked(ops, "open")
        /\ Has(ops, "open", FALSE) => Writes(ops) = <<>>
        /\ \A k \in 1..Len(ops) :
              IsStepFailure(ops[k]) =>
                  /\ k = Len(ops)
                  /\ workers[w].pc = "match"
                  /\ workers[w].result = "Err"
                  /\ TerminalsBy(w) = {}

C6_PipelineStep ==
    \A w \in DOMAIN workers :
        (StepFailed(Ops(w)) /\ workers'[w] # workers[w]) =>
            /\ SendsNow(w, "Error")
            /\ workers'[w].pc = "done"

(* C6: hash, push, port open and command session run in that order, each   *)
(* of the first three at most once; a failed hash or metadata read means   *)
(* no ADB push is invoked, a failed push that the port is never opened, a  *)
(* failed open that no command is written; the failure is the last thing   *)
(* the worker does before the one Error event that ends the transfer.      *)
C6_ShortCircuit == []C6_PipelineState /\ [][C6_PipelineStep]_vars

C6_Witness ==
    \E w \in DOMAIN workers :
        /\ Has(Ops(w), "adb_push_returned", FALSE)
        /\ Has(Ops(w), "adb_push_file", TRUE)
        /\ workers[w].pc = "match"

(* C7: the events applied so far are the first events sent, in send order, *)
(* and the queue holds exactly the events sent after them, in send order:  *)
(* none lost, none duplicated, none reordered.                             *)
C7_InOrderDelivery ==
    /\ applied = [k \in 1..Len(applied) |-> k]
    /\ Len(applied) + Len(queue) = Len(sent)
    /\ \A j \in 1..Len(queue) :
          /\ queue[j].id = Len(applied) + j
          /\ queue[j].msg.type = sent[Len(applied) + j].type

C7_Witness ==
    /\ fg = "process_messages"
    /\ Len(applied) >= 2
    /\ Len(queue) >= 2
    /\ Cardinality(ActiveWorkers) = 1

(* C8: under LiveSpec, whenever is_processing is set it is later cleared:  *)
(* is_processing ~> ~is_processing, which is []<>~is_processing.            *)
C8_GuardEventuallyCleared == []<>(~is_processing)

C8_Witness ==
    /\ ~is_processing
    /\ start_result = "spawned"
    /\ ActiveWorkers = {}
    /\ Len(applied) = Len(sent)

C9_ApplyStep ==
    (applied' # applied) =>
        LET m == Head(queue).msg IN
        CASE m.type = "Success" ->
               ~is_processing' /\ progress' = 10 /\ status_message' = m.msg
          [] m.type = "Error" ->
               /\ ~is_processing' /\ progress' = 0
               /\ status_message' = <<"Error: ">> \o m.msg
          [] OTHER -> is_processing' = is_processing

(* C9: applying Success clears is_processing, sets progress to 1.0 and the *)
(* status to the event text; applying Error clears is_processing, sets     *)
(* progress to 0.0 and the status to "Error: " and the event text; Log and *)
(* Progress leave is_processing as it is.                                  *)
C9_TerminalEventsClearGuard == [][C9_ApplyStep]_vars

C9_Witness ==
    /\ ~is_processing
    /\ progress = 10
    /\ status_message = <<"Transfer complete!">>
    /\ applied # <<>>

C10_NoImageStep ==
    (~is_processing /\ selected_image = None /\ StartTransfer) =>
        /\ status_message' = <<"No image selected">>
        /\ ~is_processing'
        /\ UNCHANGED <<serial_device, selected_image, screen_config, progress,
                       log_messages, queue, workers, sent, applied, fg>>

(* C10: start_transfer with no transfer in flight and no image selected    *)
(* only sets status_message to "No image selected": no worker, no event,   *)
(* is_processing and progress as they were.                                *)
C10_NoImageRejected == [][C10_NoImageStep]_vars

C10_Witness ==
    /\ start_result = "no_image"
    /\ status_message = <<"No image selected">>
    /\ workers = <<>>
    /\ sent = <<>>
    /\ ~is_processing

LastN(seq, n) ==
    IF Len(seq) <= n THEN seq ELSE SubSeq(seq, Len(seq) - n + 1, Len(seq))

(* C11: under LogSpec, whatever number of Log events has been received,    *)
(* log_messages holds at most 100 entries, and they are the texts of the   *)
(* most recently received Log events in arrival order: the oldest entry is *)
(* the one dropped when the 101st arrives.                                  *)
C11_LogWindow ==
    /\ Len(log_messages) <= 100
    /\ log_messages = LastN([k \in 1..Len(applied) |-> LogLine(applied[k])], 100)

C11_Witness ==
    /\ Len(applied) = 101
    /\ Len(log_messages) = 100
    /\ log_messages[1] = LogLine(2)
    /\ log_messages[100] = LogLine(101)
    /\ fg = "idle"

C12_NeverBlocksState ==
    /\ queue = <<>> => ENABLED ProcessMessagesReturn
    /\ queue # <<>> => ENABLED RecvMessage

C12_ReturnStep ==
    (fg = "process_messages" /\ fg' = "idle") =>
        /\ queue = <<>>
        /\ Len(applied) = Len(sent)
        /\ UNCHANGED <<app_state, queue, workers, sent, applied>>

(* C12: process_messages always has a step to take: it applies the oldest  *)
(* queued event, or, the queue being empty, returns, whether or not a      *)
(* worker exists and wherever a worker is; when it returns every event     *)
(* sent so far has been applied, and the return itself changes nothing.    *)
C12_NeverBlocks == []C12_NeverBlocksState /\ [][C12_ReturnStep]_vars

C12_Witness ==
    /\ fg = "idle"
    /\ queue = <<>>
    /\ applied # <<>>
    /\ \E w \in DOMAIN workers : workers[w].pc = "keepalive"

----------------------------------------------------------------------------
(* Properties of the codec, under CodecSpec *)

LengthField(frame) == frame[2] * 256 + frame[3]
Payload(frame) == SubSeq(frame, 4, Len(frame) - 2)
Checksum(frame) == frame[Len(frame) - 1]

Reserved(b) == b = 90 \/ b = 91
ReservedBefore(data, k) == Cardinality({ j \in 1..(k - 1) : Reserved(data[j]) })

(* C15: escape_data maps each byte on its own, in order: 0x5A to 5B 01,    *)
(* 0x5B to 5B 02, any other byte to itself; the output is as long as the   *)
(* input plus the number of its bytes that are 0x5A or 0x5B.               *)
C15_EscapeBytewise ==
    codec.fn = "escape_data" =>
        LET data == codec.data
            out == codec.result
        IN  /\ Len(out) = Len(data) + ReservedBefore(data, Len(data) + 1)
            /\ \A k \in 1..Len(data) :
                  LET at == k + ReservedBefore(data, k)
                  IN  CASE data[k] = 90 -> out[at] = 91 /\ out[at + 1] = 1
                        [] data[k] = 91 -> out[at] = 91 /\ out[at + 1] = 2
                        [] OTHER -> out[at] = data[k]

C15_Witness ==
    /\ codec.fn = "escape_data"
    /\ codec.data = <<90, 91, 65>>
    /\ codec.result = <<91, 1, 91, 2, 65>>
    /\ Len(codec.result) = 5

(* The decoder of a receiver, reading from left to right: 5B 01 is 0x5A,   *)
(* 5B 02 is 0x5B, any other byte is itself.  A pair starts at every 0x5B   *)
(* that 0x01 or 0x02 follows (the second byte of a pair is never 0x5B, so  *)
(* no pair starts inside another), and a byte is dropped as the second of  *)
(* a pair when a pair starts right before it.                              *)
PairAt(bytes, k) ==
    k >= 1 /\ k < Len(bytes) /\ bytes[k] = 91 /\ bytes[k + 1] \in {1, 2}

DecodeAt(bytes, k) ==
    IF PairAt(bytes, k - 1) THEN <<>>
    ELSE IF PairAt(bytes, k) THEN (IF bytes[k + 1] = 1 THEN <<90>> ELSE <<91>>)
    ELSE <<bytes[k]>>

RECURSIVE unescape_slice(_, _, _)
unescape_slice(bytes, lo, hi) ==
    IF lo > hi THEN <<>>
    ELSE IF lo = hi THEN DecodeAt(bytes, lo)
    ELSE LET mid == (lo + hi) \div 2
         IN  unescape_slice(bytes, lo, mid) \o unescape_slice(bytes, mid + 1, hi)

unescape(bytes) == unescape_slice(bytes, 1, Len(bytes))

(* C16: the decoder returns m from escape_data(m), and from the payload of *)
(* build_frame(m); no other message escapes to what m escapes to.          *)
C16_EscapeReversible ==
    /\ codec.fn = "escape_data" =>
          /\ unescape(codec.result) = codec.data
          /\ \A other \in Messages :
                other # codec.data => escape_data(other) # codec.result
    /\ (codec.fn = "build_frame" /\ Len(codec.message) <= MaxLen) =>
          unescape(Payload(codec.result)) = codec.message

C16_Witness ==
    /\ codec.fn = "escape_data"
    /\ codec.data = <<91, 1>>
    /\ codec.result = <<91, 2, 1>>
    /\ escape_data(<<90>>) = <<91, 1>>

NoBareReserved(bytes) ==
    \A k \in 1..Len(bytes) :
        /\ bytes[k] # 90
        /\ bytes[k] = 91 => (k < Len(bytes) /\ bytes[k + 1] \in {1, 2})

(* C17: the output of escape_data, and so the payload of a frame, holds no *)
(* 0x5A, and each 0x5B in it is directly followed by 0x01 or 0x02.         *)
C17_NoBareReservedByte ==
    /\ codec.fn = "escape_data" => NoBareReserved(codec.result)
    /\ codec.fn = "build_frame" => NoBareReserved(Payload(codec.result))

C17_Witness ==
    /\ codec.fn = "escape_data"
    /\ codec.data = <<91, 90, 91>>
    /\ codec.result = <<91, 2, 91, 1, 91, 2>>

RECURSIVE SumBytes(_)
SumBytes(bytes) == IF bytes = <<>> THEN 0 ELSE Head(bytes) + SumBytes(Tail(bytes))

(* C18: calc_crc(p) is the sum of the bytes of p modulo 256, 0 for the     *)
(* empty p, and the checksum byte of a frame is that of its escaped        *)
(* payload.                                                                *)
C18_ChecksumIsSumMod256 ==
    /\ codec.fn = "calc_crc" => codec.result = SumBytes(codec.data) % 256
    /\ (codec.fn = "build_frame" /\ Len(codec.message) <= MaxLen) =>
          Checksum(codec.result) = SumBytes(escape_data(codec.message)) % 256

C18_Witness ==
    /\ codec.fn = "calc_crc"
    /\ codec.data = <<255, 255, 2>>
    /\ codec.result = 0

(* C19: the length field of a frame is the number of bytes of its escaped  *)
(* payload, whatever the length of the payload.                            *)
C19_LengthFieldIsPayloadLength ==
    codec.fn = "build_frame" =>
        LengthField(codec.result) = Len(codec.result) - 5

(* The index of the first CR LF of bytes at or after from, 0 if none. *)
FindCrlf(bytes, from) ==
    LET hits == { k \in from..(Len(bytes) - 1) : bytes[k] = 13 /\ bytes[k + 1] = 10 }
    IN  IF hits = {} THEN 0 ELSE CHOOSE k \in hits : \A j \in hits : k <= j

(* The first n CRLF-terminated lines of bytes from `from` on, without      *)
(* their CRLF, and what follows them.                                      *)
RECURSIVE TakeLines(_, _, _)
TakeLines(bytes, from, n) ==
    IF n = 0
    THEN [ok |-> TRUE, lines |-> <<>>, rest |-> SubSeq(bytes, from, Len(bytes))]
    ELSE LET end == FindCrlf(bytes, from)
         IN  IF end = 0
             THEN [ok |-> FALSE, lines |-> <<>>, rest |-> <<>>]
             ELSE LET more == TakeLines(bytes, end + 2, n - 1)
                  IN  [ok |-> more.ok,
                       lines |-> <<SubSeq(bytes, from, end - 1)>> \o more.lines,
                       rest |-> more.rest]

(* Name and value of a header line: what stands before and after its first '='. *)
EqualsAt(line) ==
    LET hits == { k \in 1..Len(line) : line[k] = 61 }
    IN  IF hits = {} THEN Len(line) + 1 ELSE CHOOSE k \in hits : \A j \in hits : k <= j
NameOf(line) == SubSeq(line, 1, EqualsAt(line) - 1)
ValueOf(line) == SubSeq(line, EqualsAt(line) + 1, Len(line))

HeaderNames ==
    << Utf8("SeqNumber"), Utf8("AckNumber"), Utf8("ContentLength"),
       Utf8("ContentType"), Utf8("FileName"), Utf8("FileSize"),
       Utf8("ContentRange"), Utf8("Counter"), Utf8("Date"), Utf8("msgId") >>

(* C20: a message is the line "POST c 1", the 10 header lines SeqNumber,   *)
(* AckNumber, ContentLength, ContentType, FileName, FileSize,              *)
(* ContentRange, Counter, Date, msgId, an empty line, each ended by CRLF,  *)
(* and the body b with nothing after it; ContentLength is the number of    *)
(* bytes of b.  build_message and CommandMessage::to_bytes both build it.  *)
C20_MessageLayout ==
    codec.fn \in {"build_message", "to_bytes"} =>
        LET parsed == TakeLines(codec.result, 1, 12)
        IN  /\ parsed.ok
            /\ parsed.lines[1] = Utf8("POST ") \o codec.cmd_type \o Utf8(" 1")
            /\ \A i \in 1..10 : NameOf(parsed.lines[i + 1]) = HeaderNames[i]
            /\ ValueOf(parsed.lines[4]) = Display(Len(codec.json_content))
            /\ parsed.lines[12] = <<>>
            /\ parsed.rest = codec.json_content

C20_Witness ==
    /\ codec.fn = "build_message"
    /\ codec.cmd_type = Utf8("mediaDelete")
    /\ codec.json_content = Utf8("{\"exclude\":[\"a.png\"]}")
    /\ Len(codec.json_content) = 21
    /\ TakeLines(codec.result, 1, 12).lines[1] = Utf8("POST mediaDelete 1")
    /\ TakeLines(codec.result, 1, 12).lines[4] = Utf8("ContentLength=") \o <<50, 49>>

----------------------------------------------------------------------------
(* Properties of the bytes a session writes, under WireSpec *)

IsCompleteFrame(frame) ==
    /\ Len(frame) >= 5
    /\ frame[1] = 90
    /\ LengthField(frame) = Len(frame) - 5
    /\ NoBareReserved(Payload(frame))
    /\ Checksum(frame) = calc_crc(Payload(frame))
    /\ frame[Len(frame)] = 90

(* The payload of the frame, decoded, is a message for command cmd with    *)
(* the given JSON text as its body.                                        *)
CarriesMessage(frame, cmd, json_content) ==
    LET parsed == TakeLines(unescape(Payload(frame)), 1, 12)
    IN  /\ parsed.ok
        /\ parsed.lines[1] = Utf8("POST ") \o Utf8(cmd) \o Utf8(" 1")
        /\ \A i \in 1..10 : NameOf(parsed.lines[i + 1]) = HeaderNames[i]
        /\ parsed.lines[12] = <<>>
        /\ parsed.rest = json_content

LastWrite(ops) == Writes(ops)[Len(Writes(ops))]

(* C13: what a session hands to write_all is, each time, one whole frame:  *)
(* build_frame of the message build_message makes of the command name and  *)
(* the serialised body, with both markers, the length of its payload and   *)
(* its checksum, and a payload that decodes to that message, for the       *)
(* telemetry command as for the others.  Said of the latest write of a     *)
(* thread, which every write once is.                                      *)
C13_WritesAreWholeFrames ==
    \A w \in DOMAIN workers :
        Writes(Ops(w)) # <<>> =>
            LET write == LastWrite(Ops(w))
            IN  /\ write.frame =
                      build_frame(build_message(Utf8(write.cmd),
                                                to_string(write.body), write.now))
                /\ IsCompleteFrame(write.frame)
                /\ CarriesMessage(write.frame, write.cmd, to_string(write.body))

C13_Witness ==
    \E w \in DOMAIN workers :
        /\ workers[w].result = "Ok"
        /\ Commands(Ops(w)) = ImageCommandSequence
        /\ \A k \in 1..9 : IsCompleteFrame(Writes(Ops(w))[k].frame)
        /\ LET write == Writes(Ops(w))[2]
           IN  /\ write.cmd = "mediaDelete"
               /\ Len(write.frame) - 5 =
                      Len(build_message(Utf8("mediaDelete"), to_string(write.body),
                                        write.now)) + 1

----------------------------------------------------------------------------
(* Properties of the header values, under CodecSpec *)

(* The number a header value spells: decimal digits, '-' before them for a *)
(* negative one.                                                           *)
RECURSIVE ParseDigits(_)
ParseDigits(bytes) ==
    IF bytes = <<>> THEN 0
    ELSE ParseDigits(SubSeq(bytes, 1, Len(bytes) - 1)) * 10 + (bytes[Len(bytes)] - 48)

IsDecimal(bytes) == bytes # <<>> /\ \A k \in 1..Len(bytes) : bytes[k] \in 48..57

ParseInt(bytes) ==
    IF bytes # <<>> /\ bytes[1] = 45
    THEN 0 - ParseDigits(Tail(bytes))
    ELSE ParseDigits(bytes)

HeaderValue(message, i) == ValueOf(TakeLines(message, 1, 12).lines[i + 1])

(* C21: in a message built at the clock reading `now`, by build_message or *)
(* by CommandMessage::to_bytes, SeqNumber spells now modulo 100,000, a     *)
(* number in 0..99999, Date spells now itself, ContentType is json, and    *)
(* AckNumber, FileName, FileSize, ContentRange, Counter and msgId spell    *)
(* -1, for every command name and body.                                    *)
C21_HeaderValues ==
    codec.fn \in {"build_message", "to_bytes"} =>
        LET seq == HeaderValue(codec.result, 1)
            date == HeaderValue(codec.result, 9)
        IN  /\ IsDecimal(seq)
            /\ ParseInt(seq) = codec.now % 100000
            /\ ParseInt(seq) \in 0..99999
            /\ IsDecimal(date)
            /\ ParseInt(date) = codec.now
            /\ HeaderValue(codec.result, 4) = Utf8("json")
            /\ \A i \in {2, 5, 6, 7, 8, 10} :
                  ParseInt(HeaderValue(codec.result, i)) = -1

C21_Witness ==
    /\ codec.fn = "to_bytes"
    /\ codec.cmd_type = Utf8("waterBlockScreenId")
    /\ codec.now = 1234567890
    /\ ParseInt(HeaderValue(codec.result, 1)) = 67890
    /\ ParseInt(HeaderValue(codec.result, 9)) = 1234567890
    /\ HeaderValue(codec.result, 2) = <<45, 49>>

----------------------------------------------------------------------------
(* Properties of the pacing and of the inputs of a session, under Spec *)

IsSleep(o, ms) == o.op = "sleep" /\ o.ms = ms
IsWrite(o, cmd) == o.op = "write_all" /\ o.cmd = cmd
WriteIndices(ops) == { k \in 1..Len(ops) : ops[k].op = "write_all" }

(* The writes of "all" that come after the write of waterBlockScreenId. *)
SustainedKeepalives(ops) ==
    { k \in WriteIndices(ops) :
        /\ ops[k].cmd = "all"
        /\ \E j \in 1..(k - 1) : IsWrite(ops[j], "waterBlockScreenId") }

(* C22: in the trace of a session the open is followed by the 100 ms pause *)
(* and the buffer clear, and every command is written after them; each     *)
(* keepalive written after waterBlockScreenId has its own 800 ms pause     *)
(* directly before its send_sysinfo call, the flush of the command before  *)
(* it directly before that pause; there are at most 5 of them.             *)
C22_Pacing ==
    \A w \in DOMAIN workers :
        LET ops == Ops(w) IN
        /\ \A k \in WriteIndices(ops) :
              \E o \in 1..(k - 3) :
                  /\ ops[o].op = "open"
                  /\ IsSleep(ops[o + 1], 100)
                  /\ ops[o + 2].op = "clear"
        /\ \A k \in SustainedKeepalives(ops) :
              /\ k > 3
              /\ ops[k - 1].op = "get_sysinfo"
              /\ IsSleep(ops[k - 2], 800)
              /\ ops[k - 3].op = "flush"
        /\ Cardinality(SustainedKeepalives(ops)) <= 5

C22_Witness ==
    \E w \in DOMAIN workers :
        LET ops == Ops(w) IN
        /\ workers[w].pc = "log_complete"
        /\ Cardinality(SustainedKeepalives(ops)) = 5
        /\ Cardinality({ k \in 1..Len(ops) : IsSleep(ops[k], 800) }) = 5
        /\ Has(ops, "clear", TRUE)

Snapshots(ops) == SelectSeq(ops, LAMBDA o : o.op = "get_sysinfo")

(* C23: every write of the telemetry command "all" has a get_sysinfo read  *)
(* directly before it and carries the snapshot that read returned; the     *)
(* snapshots read in a session are all different, so that none is sent     *)
(* twice; a session reads at most 7.                                       *)
C23_FreshSnapshot ==
    \A w \in DOMAIN workers :
        LET ops == Ops(w)
            reads == Snapshots(ops)
        IN  /\ \A k \in WriteIndices(ops) :
                  ops[k].cmd = "all" =>
                      /\ k > 1
                      /\ ops[k - 1].op = "get_sysinfo"
                      /\ ops[k].body = SysInfoBody(ops[k - 1].snapshot)
            /\ \A i, j \in 1..Len(reads) :
                  i # j => reads[i].snapshot # reads[j].snapshot
            /\ Len(reads) <= 7

C23_Witness ==
    \E w \in DOMAIN workers :
        LET ops == Ops(w)
            alls == SelectSeq(ops, LAMBDA o : IsWrite(o, "all"))
        IN  /\ Len(alls) = 7
            /\ Len(Snapshots(ops)) = 7
            /\ \A i \in 1..7 : alls[i].body = SysInfoBody(Snapshots(ops)[i].snapshot)
            /\ alls[1].body # alls[7].body

ClearFailed(ops) == Has(ops, "clear", FALSE)

(* A session whose clear failed ends in an error only through a failed     *)
(* write or flush, and when it returns Ok it has written all 9 commands.   *)
C25_ClearFailureState ==
    \A w \in DOMAIN workers :
        ClearFailed(Ops(w)) =>
            /\ workers[w].result = "Err" => TransportFailed(Ops(w))
            /\ (SessionReturned(w) /\ ~TransportFailed(Ops(w))) =>
                  /\ workers[w].result \in {"none", "Ok"}
                  /\ Commands(Ops(w)) = ImageCommandSequence

(* The step a thread takes right after a failed clear sends no event and   *)
(* is the initial send_sysinfo: a snapshot read and the write of "all".    *)
C25_ClearFailureStep ==
    \A w \in DOMAIN workers :
        LET ops == Ops(w) IN
        ( /\ ops # <<>>
          /\ ops[Len(ops)].op = "clear"
          /\ ~ops[Len(ops)].ok
          /\ workers'[w] # workers[w] ) =>
            /\ sent' = sent
            /\ Len(workers'[w].ops) >= Len(ops) + 2
            /\ workers'[w].ops[Len(ops) + 1].op = "get_sysinfo"
            /\ IsWrite(workers'[w].ops[Len(ops) + 2], "all")

(* C25: a failed buffer clear is not an error of the session: the next     *)
(* thing the session does is the initial telemetry send, no Error event    *)
(* comes of it, and the session goes on through the 9 commands, to end in  *)
(* an error only if a write or flush fails.                                *)
C25_ClearFailureTolerated == []C25_ClearFailureState /\ [][C25_ClearFailureStep]_vars

C25_Witness ==
    \E w \in DOMAIN workers :
        /\ ClearFailed(Ops(w))
        /\ workers[w].pc = "match"
        /\ workers[w].result = "Ok"
        /\ Commands(Ops(w)) = ImageCommandSequence

(* The remote file names a thread has used: pushed under, excluded from    *)
(* the cleanup, referenced by the configuration.                           *)
PushedNames(ops) ==
    { ops[k].remote_path[2] : k \in { j \in 1..Len(ops) : ops[j].op = "adb_push_file" } }
ExcludedLists(ops) ==
    { ops[k].body.exclude : k \in { j \in 1..Len(ops) : IsWrite(ops[j], "mediaDelete") } }
MediaLists(ops) ==
    { ops[k].body.media :
        k \in { j \in 1..Len(ops) : IsWrite(ops[j], "waterBlockScreenId") } }

(* C28: in one transfer the file is pushed under the name generate_filename *)
(* returned, to /sdcard/pcMedia/, the exclude list of mediaDelete holds    *)
(* that name and nothing else, and so does the media list of               *)
(* waterBlockScreenId: the file the configuration references is the one    *)
(* the cleanup keeps.                                                      *)
C28_OneRemoteName ==
    \A w \in DOMAIN workers :
        LET ops == Ops(w)
            name == workers[w].remote_name
        IN  /\ \A k \in 1..Len(ops) :
                  ops[k].op = "adb_push_file" =>
                      ops[k].remote_path = <<"/sdcard/pcMedia/", name>>
            /\ PushedNames(ops) \subseteq {name}
            /\ ExcludedLists(ops) \subseteq {<<name>>}
            /\ MediaLists(ops) \subseteq {<<name>>}
            /\ \A media \in MediaLists(ops) :
                  /\ ExcludedLists(ops) # {}
                  /\ \A exclude \in ExcludedLists(ops) :
                        \E i \in 1..Len(exclude) : exclude[i] = media[1]
            /\ PushedNames(ops) # {} => name.stamp \in Stamps

C28_Witness ==
    \E w \in DOMAIN workers :
        LET name == [stamp |-> 2, ext |-> "jpg"] IN
        /\ PushedNames(Ops(w)) = {name}
        /\ ExcludedLists(Ops(w)) = {<<name>>}
        /\ MediaLists(Ops(w)) = {<<name>>}
        /\ Len(workers) = 2

foreground_state == <<is_processing, progress, status_message, log_messages>>

(* This step is a step of a thread spawned earlier. *)
WorkerStep == \E w \in DOMAIN workers : workers'[w] # workers[w]

C29_WorkerStep ==
    WorkerStep =>
        /\ UNCHANGED foreground_state
        /\ UNCHANGED <<serial_device, selected_image, screen_config, applied>>
        /\ \/ queue' = queue /\ sent' = sent
           \/ /\ Len(sent') = Len(sent) + 1
              /\ queue' = Append(queue, queue'[Len(queue')])
              /\ queue'[Len(queue')].id = Len(sent')

C29_ForegroundStep ==
    (foreground_state' # foreground_state) =>
        /\ ~WorkerStep
        /\ StartTransfer \/ RecvMessage

(* C29: a step of a worker thread leaves is_processing, progress,          *)
(* status_message and log_messages (and the rest of the app) as they are,  *)
(* and either leaves the channel alone or appends one event to it; a step  *)
(* that changes one of the four fields is a step of start_transfer or of   *)
(* process_messages.                                                       *)
C29_WorkerLeavesAppAlone == [][C29_WorkerStep]_vars /\ [][C29_ForegroundStep]_vars

C29_Witness ==
    /\ Len(queue) >= 4
    /\ queue[1].msg = Progress(1, <<"Calculating MD5...">>)
    /\ queue[Len(queue)].msg = Progress(2, <<"Pushing to device via ADB...">>)
    /\ progress = 0
    /\ status_message = <<"Starting transfer...">>
    /\ log_messages = <<>>
    /\ is_processing

LatestWorker == Len(workers)

C30_IdleState ==
    /\ ~is_processing =>
          /\ queue = <<>>
          /\ ActiveWorkers = {}
          /\ Len(applied) = Len(sent)
    /\ \A j \in 1..Len(queue) : sent[queue[j].id].w = LatestWorker
    /\ ActiveWorkers \subseteq {LatestWorker}

C30_IdleStep ==
    /\ applied' # applied =>
          /\ sent[Head(queue).id].w = LatestWorker
          /\ Len(workers') = Len(workers)
    /\ Len(workers') > Len(workers) =>
          /\ ~is_processing
          /\ queue = <<>>
          /\ Len(applied) = Len(sent)

(* C30: while is_processing is false the channel is empty, every event     *)
(* sent has been applied and no thread is left that could send; so the     *)
(* events in the channel, and the events applied, are always those of the  *)
(* latest thread, and a thread is spawned only when everything its         *)
(* predecessors sent has been applied.                                     *)
C30_IdleMeansDrained == []C30_IdleState /\ [][C30_IdleStep]_vars

C30_Witness ==
    /\ is_processing
    /\ Len(workers) = 2
    /\ workers[1].pc = "done"
    /\ \E k \in 1..Len(applied) : sent[applied[k]].w = 1 /\ sent[applied[k]].type = "Error"
    /\ \E k \in 1..Len(applied) : sent[applied[k]].w = 2
    /\ queue # <<>>

QueuedProgress == SelectSeq(queue, LAMBDA e : e.msg.type = "Progress")

(* The progress is a fraction, and what the channel holds for it goes up:  *)
(* each queued Progress is above the value shown and below the next one.   *)
C31_ProgressState ==
    /\ progress \in 0..10
    /\ \A j \in 1..Len(QueuedProgress) :
          /\ QueuedProgress[j].msg.progress \in {1, 2, 5}
          /\ QueuedProgress[j].msg.progress > progress
          /\ j > 1 => QueuedProgress[j].msg.progress > QueuedProgress[j - 1].msg.progress

(* A step that lowers the progress is the spawn of start_transfer or the   *)
(* apply of an Error; one that brings it to 1.0 is the apply of a Success; *)
(* the thread sends 0.1 first, 0.2 once the file is read, 0.5 once the     *)
(* push returned Ok and before the port is opened.                         *)
C31_ProgressStep ==
    /\ progress' < progress =>
          \/ Len(workers') > Len(workers) /\ progress' = 0
          \/ applied' # applied /\ Head(queue).msg.type = "Error" /\ progress' = 0
    /\ (progress' = 10 /\ progress # 10) =>
          applied' # applied /\ Head(queue).msg.type = "Success"
    /\ \A w \in DOMAIN workers :
          SendsNow(w, "Progress") =>
              LET p == queue'[Len(queue')].msg.progress
                  ops == Ops(w)
              IN  /\ p = 1 => ops = <<>>
                  /\ p = 2 => /\ Has(ops, "metadata", TRUE)
                              /\ ~Invoked(ops, "adb_wait_for_device")
                  /\ p = 5 => /\ ops[Len(ops)].op = "adb_push_returned"
                              /\ ops[Len(ops)].ok
                              /\ ~Invoked(ops, "open")
                              /\ Writes(ops) = <<>>

(* C31: progress stays within 0.0..1.0; between the reset to 0.0 by        *)
(* start_transfer and the apply of the terminal event it only goes up; the *)
(* thread sends Progress 0.1, 0.2, 0.5 in this order, 0.5 after adb_push   *)
(* returned Ok and before any serial command; only the apply of Success    *)
(* brings it to 1.0.                                                       *)
C31_ProgressMonotone == []C31_ProgressState /\ [][C31_ProgressStep]_vars

C31_Witness ==
    /\ progress = 5
    /\ is_processing
    /\ Len(workers) = 2
    /\ Len(Writes(Ops(2))) = 9
    /\ \E k \in 1..Len(applied) : sent[applied[k]].w = 1 /\ sent[applied[k]].type = "Success"

----------------------------------------------------------------------------
(* Properties of a transfer whose inputs are edited while it runs, under   *)
(* EditSpec                                                                *)

Running(w) == w \in DOMAIN workers /\ workers[w].pc # "done"

(* What a running thread has done carries the inputs it holds. *)
C24_UsesCopiesState ==
    \A w \in DOMAIN workers :
        Running(w) =>
            LET ops == Ops(w) IN
            /\ \A k \in 1..Len(ops) :
                  /\ ops[k].op = "open" => ops[k].device = workers[w].serial_device
                  /\ IsWrite(ops[k], "waterBlockScreenId") =>
                        ops[k].body = ScreenConfigBody(workers[w].remote_name,
                                                       workers[w].config)
                  /\ IsWrite(ops[k], "mediaDelete") =>
                        ops[k].body = MediaDeleteBody(workers[w].remote_name)
            /\ workers[w].file_md5 \in {"", Md5Of(workers[w].image_path)}
            /\ workers[w].remote_name.ext \in {"", Extension(workers[w].image_path)}

(* The inputs a thread holds are those of the app at the spawn and stay as *)
(* they are while it runs; a step of the thread leaves the app's alone.    *)
C24_UsesCopiesStep ==
    /\ Len(workers') > Len(workers) =>
          LET new == workers'[Len(workers')] IN
          /\ new.config = screen_config
          /\ new.serial_device = serial_device
          /\ new.image_path = selected_image[1]
    /\ \A w \in DOMAIN workers :
          /\ (Running(w) /\ workers'[w].pc # "done") =>
                /\ workers'[w].config = workers[w].config
                /\ workers'[w].serial_device = workers[w].serial_device
                /\ workers'[w].image_path = workers[w].image_path
          /\ workers'[w] # workers[w] =>
                UNCHANGED <<screen_config, serial_device, selected_image>>

(* C24: a worker holds the screen_config, serial_device and image path the *)
(* app had when start_transfer spawned it; they stay as they are while it  *)
(* runs, whatever the foreground edits meanwhile; the port it opens, the   *)
(* file it reads and the bodies of mediaDelete and waterBlockScreenId are  *)
(* made of them; no step of a worker changes the app's screen_config,      *)
(* serial_device or selected_image.                                        *)
C24_UsesCopies == []C24_UsesCopiesState /\ [][C24_UsesCopiesStep]_vars

C24_Witness ==
    \E w \in DOMAIN workers :
        LET sends == SelectSeq(Ops(w), LAMBDA o : IsWrite(o, "waterBlockScreenId"))
        IN  /\ Running(w)
            /\ Len(sends) = 1
            /\ sends[1].body.screenMode # screen_config.screen_mode
            /\ workers[w].serial_device # serial_device
            /\ Some(workers[w].image_path) # selected_image
            /\ Has(Ops(w), "open", TRUE)

----------------------------------------------------------------------------
(* Properties of the size verification of adb_push, under PushSpec *)

StatCalls(ops) == { k \in 1..Len(ops) : ops[k].op = "adb_stat" }

(* The comparison of line 89 was made and found the sizes different. *)
MismatchFound(ops) ==
    \E k \in StatCalls(ops) :
        /\ ops[k].exit = "exit_success"
        /\ ParseRemoteSize(ops[k].out) # ops[k].expected_size

MismatchText(o) ==
    << "File size mismatch: local=", SizeStr(o.expected_size),
       ", remote=", SizeStr(ParseRemoteSize(o.out)) >>

C26_MismatchState ==
    \A w \in DOMAIN workers :
        LET ops == Ops(w) IN
        MismatchFound(ops) =>
            /\ workers[w].pc = "match"
            /\ workers[w].result = "Err"
            /\ \E k \in StatCalls(ops) : workers[w].err = MismatchText(ops[k])
            /\ ops[Len(ops)].op = "adb_push_returned" /\ ~ops[Len(ops)].ok
            /\ ~Invoked(ops, "open")
            /\ Writes(ops) = <<>>
            /\ TerminalsBy(w) = {}

C26_MismatchStep ==
    \A w \in DOMAIN workers :
        (MismatchFound(Ops(w)) /\ workers'[w] # workers[w]) =>
            /\ SendsNow(w, "Error")
            /\ queue'[Len(queue')].msg = Error(workers[w].err)
            /\ workers'[w].pc = "done"

(* C26 as amended: a size verification that finds the remote size          *)
(* different from the local size is fatal: adb_push returns the error      *)
(* "File size mismatch: local=L, remote=R", the port is never opened and   *)
(* no command written, and the one event the worker then sends is the      *)
(* Error event with that text.                                             *)
C26_MismatchIsFatal == []C26_MismatchState /\ [][C26_MismatchStep]_vars

C26_Witness ==
    \E w \in DOMAIN workers :
        /\ MismatchFound(Ops(w))
        /\ workers[w].err = <<"File size mismatch: local=", "2", ", remote=", "0">>
        /\ Has(Ops(w), "adb_push_file", TRUE)

(* C26: a thread about to call adb_push can come out of it with a size     *)
(* mismatch found and go on towards the serial command session.            *)
C26_MismatchMayProceed ==
    \A w \in DOMAIN workers :
        workers[w].pc = "adb_push" =>
            ENABLED ( /\ AdbPush(w)
                      /\ MismatchFound(workers'[w].ops)
                      /\ workers'[w].pc = "progress_serial" )

IsNumber(out) == out \in {"0", "2"}

StatFailureSeen ==
    \E w \in DOMAIN workers :
        \E k \in StatCalls(Ops(w)) :
            /\ Ops(w)[k].exit = "exit_failure"
            /\ Ops(w)[k].out = "0"
            /\ Ops(w)[k].expected_size = 2
            /\ workers[w].pc = "open"

----------------------------------------------------------------------------
(* Properties of the marker value in a frame, under CodecSpec *)

(* The places of a frame, its two ends left out, that hold 0x5A. *)
InnerMarkers(frame) == { k \in 2..(Len(frame) - 1) : frame[k] = 90 }

(* C32 as amended: a frame of build_frame begins and ends with 0x5A and no *)
(* byte of its escaped payload is 0x5A; between its ends 0x5A can stand    *)
(* only in the two length bytes and in the checksum byte, which are        *)
(* written unescaped.                                                      *)
C32_MarkerNotInPayload ==
    codec.fn = "build_frame" =>
        LET frame == codec.result IN
        /\ frame[1] = 90
        /\ frame[Len(frame)] = 90
        /\ InnerMarkers(frame) \subseteq {2, 3, Len(frame) - 1}
        /\ \A k \in 4..(Len(frame) - 2) : frame[k] # 90

C32_Witness ==
    /\ codec.fn = "build_frame"
    /\ codec.message = <<255, 255, 90>>
    /\ codec.result = <<90, 0, 4, 255, 255, 91, 1, 90, 90>>
    /\ InnerMarkers(codec.result) = {8}

(* C32: in a frame of build_frame 0x5A stands only at the first and at the *)
(* last place: no length byte, payload byte or checksum byte is 0x5A.      *)
C32_MarkerOnlyAtEnds ==
    codec.fn = "build_frame" => InnerMarkers(codec.result) = {}

====
